---------------------------- MODULE Spec2Model ----------------------------
(***************************************************************************)
(* Model of the order-document extraction pipeline:                        *)
(*   app/extractors/gemini_extractor.py      (GeminiExtractor)             *)
(*   app/extractors/extraction_agent.py      (ExtractionAgent)             *)
(*   app/extractors/generic_strategy_agent.py (GenericStrategyAgent)       *)
(*   app/extractors/validators/recovery_integration.py                     *)
(*   app/utils/size_detection.py, app/utils/json_utils.py                  *)
(*                                                                         *)
(* The application is modelled after initialize_recovery_system() has run  *)
(* ("Deve ser chamado na inicialização da aplicação"), i.e. with           *)
(* ExtractionAgent._extract_and_clean_json and GeminiExtractor.process_page*)
(* replaced by the enhanced versions of patch_gemini_extractor.            *)
(*                                                                         *)
(* Data encoding.  JSON values the oracle may return are records:          *)
(*   size entry : [size, quantity, qkind]   qkind "num" is a JSON number,  *)
(*                "str" a numeric JSON string ("2"), "junk" any other      *)
(*                non-numeric value                                        *)
(*   color      : [color_code, color_name, sizes, unit_price, subtotal]    *)
(*   product    : [is_dict, material_code, name, brand, has_colors,        *)
(*                 colors, total_price, has_refs, references]              *)
(* Null stands for JSON null / Python None, Absent for a missing key,      *)
(* NonStr for a JSON value that is not a string, NoPrice for a missing or  *)
(* null price.                                                             *)
(***************************************************************************)
EXTENDS Integers, Sequences, FiniteSets, TLC

Null == "<null>"
Absent == "<absent>"
NonStr == "<123>"
NoPrice == 0 - 1

Truthy(s) == s # "" /\ s # Null /\ s # Absent

RECURSIVE SumSeq(_)
SumSeq(s) == IF s = <<>> THEN 0 ELSE Head(s) + SumSeq(Tail(s))

RECURSIVE FlattenSeq(_)
FlattenSeq(ss) == IF ss = <<>> THEN <<>> ELSE Head(ss) \o FlattenSeq(Tail(ss))

SeqToSet(s) == {s[i] : i \in 1..Len(s)}

(***************************************************************************)
(* Sample oracle data.  Sizes, colors and products the oracle may report.  *)
(***************************************************************************)
Sz(s, q) == [size |-> s, quantity |-> q, qkind |-> "num"]
SzStr(s, q) == [size |-> s, quantity |-> q, qkind |-> "str"]
SzJunk(s) == [size |-> s, quantity |-> 0, qkind |-> "junk"]

Color(code, sizes, unit, sub) ==
    [color_code |-> code, color_name |-> "Cor", sizes |-> sizes,
     unit_price |-> unit, subtotal |-> sub]

Product(code, name, colors) ==
    [is_dict |-> TRUE, material_code |-> code, name |-> name,
     brand |-> Absent, has_colors |-> TRUE, colors |-> colors,
     total_price |-> NoPrice, has_refs |-> FALSE, references |-> <<>>]

C001 == Color("001", <<Sz("S", 1)>>, 10, 10)
C002 == Color("002", <<Sz("M", 2)>>, 10, 20)
C001b == Color("001", <<Sz("M", 3)>>, 10, 30)
CScenA == Color("001", <<Sz("S", 1), Sz("M", 0)>>, 10, 10)
CZero == Color("002", <<Sz("M", 0)>>, 10, NoPrice)
CUnsorted == Color("002", <<Sz("m", 2), Sz("S", 1)>>, 10, 30)
CUnit == Color("001", <<Sz("UN", 1)>>, 10, 10)
CStrQty == Color("001", <<SzStr("S", 2)>>, 10, 20)
CStrQtyNoSub == Color("001", <<SzStr("S", 2)>>, 10, NoPrice)
CJunkQty == Color("002", <<SzJunk("M"), Sz("S", 1)>>, 10, 10)
CNoCode == Color(Null, <<Sz("S", 1)>>, 10, 10)
CLongCode == Color("X0707", <<Sz("S", 1)>>, 10, 10)

PCf1 == Product("CF100", "Polo 12", <<C001>>)
PCf2 == Product("CF100", "Polo 12", <<C002>>)
PCf1b == Product("CF100", "POLO", <<C001b, C002>>)
PScenA == Product("AB1234", "Polo 12", <<CScenA>>)
PZero == Product("AB1234", "POLO", <<CZero>>)
PUnsorted == Product("ZZ9", "POLO", <<CUnsorted>>)
PUnit == Product("ZZ9", "POLO", <<CUnit>>)
PBare == Product("CF100", "", <<>>)
PNoCode == Product("", "POLO", <<C001>>)
PNullName == Product("AB1234", Null, <<C002, CNoCode>>)
PNonStrName == Product("AB1234", NonStr, <<C001>>)
PNullBrand == [Product("AB1234", "POLO", <<C001>>) EXCEPT !.brand = Null]
PBrand == [Product("AB1234", "POLO", <<C002>>) EXCEPT !.brand = "Acme"]
PStrQty == Product("AB1234", "POLO", <<CStrQty>>)
PStrQtyNoSub == Product("CF100", "POLO", <<CStrQtyNoSub>>)
PJunkQty == Product("ZZ9", "POLO", <<CJunkQty>>)
PNameOnly == [Product("CF100", "POLO", <<>>) EXCEPT !.has_colors = FALSE]
PLongCode == Product("ZZ9", "POLO", <<CLongCode>>)
\* an element of the products array that is not a JSON object
NotADict ==
    [Product(Absent, Absent, <<>>) EXCEPT !.is_dict = FALSE, !.has_colors = FALSE]

ProductPool ==
    {PCf1, PCf2, PCf1b, PScenA, PZero, PUnsorted, PUnit, PBare, PNoCode,
     PNullName, PNonStrName, PNullBrand, PBrand, PStrQty, PStrQtyNoSub,
     PJunkQty, PNameOnly, PLongCode, NotADict}

(***************************************************************************)
(* Python string operations on the sample names and codes.                 *)
(***************************************************************************)
\* re.match(r'^([A-Za-z\s]+)(?:\s+\d+.*)?$', name) -> group(1).strip(),
\* else digits removed and whitespace collapsed
CleanName(n) ==
    CASE n = "Polo 12" -> "Polo"
      [] n = "Produto AB1234" -> "Produto AB"
      [] n = "Produto CF100" -> "Produto CF"
      [] n = "Produto ZZ9" -> "Produto ZZ"
      [] OTHER -> n

Upper(n) ==
    CASE n = "Polo" -> "POLO"
      [] n = "Acme" -> "ACME"
      [] n = "Produto AB" -> "PRODUTO AB"
      [] n = "Produto CF" -> "PRODUTO CF"
      [] n = "Produto ZZ" -> "PRODUTO ZZ"
      [] OTHER -> n

\* Python's string order on the sample material codes
MaterialCodeOrder == <<"", "AB1234", "CF100", "ZZ9">>
CodeRank(c) == CHOOSE i \in 1..Len(MaterialCodeOrder) : MaterialCodeOrder[i] = c


(***************************************************************************)
(* Product Consolidator: GeminiExtractor._post_process_products.           *)
(* The Python loop mutates the product dicts of its input list in place    *)
(* and processed_products holds references to those same dicts, so the     *)
(* accumulator keeps the (mutated) input list `raw` and the processed list *)
(* as indices into it.  `raised` records an exception escaping the loop.   *)
(***************************************************************************)
\* has_valid_data, lines 1151-1162
HasValidData(p) ==
    /\ p.has_colors
    /\ \E k \in 1..Len(p.colors) :
          \/ Len(p.colors[k].sizes) > 0
          \/ Truthy(p.colors[k].color_code)
          \/ Truthy(p.colors[k].color_name)

\* sum of the non-None subtotals, None when there is none (lines 1240-1242)
RECURSIVE SubtotalsOf(_)
SubtotalsOf(colors) ==
    IF colors = <<>> THEN <<>>
    ELSE (IF Head(colors).subtotal = NoPrice THEN <<>> ELSE <<Head(colors).subtotal>>)
         \o SubtotalsOf(Tail(colors))

TotalPrice(colors) ==
    IF SubtotalsOf(colors) = <<>> THEN NoPrice ELSE SumSeq(SubtotalsOf(colors))

\* a merge that appends every incoming color
MergeColorsAll(existing, incoming) == existing \o incoming

\* colors of `incoming` appended to `existing` when their color_code is
\* truthy and not yet present (lines 1230-1237)
RECURSIVE MergeColors(_, _)
MergeColors(existing, incoming) ==
    IF incoming = <<>> THEN existing
    ELSE LET c == Head(incoming)
             codes == {existing[k].color_code : k \in 1..Len(existing)}
         IN IF Truthy(c.color_code) /\ c.color_code \notin codes
            THEN MergeColors(Append(existing, c), Tail(incoming))
            ELSE MergeColors(existing, Tail(incoming))

\* `quantity <= 0` raises TypeError when quantity is not a number (line 1265)
SizesRaise(colors) ==
    \E k \in 1..Len(colors) : \E j \in 1..Len(colors[k].sizes) :
        colors[k].sizes[j].qkind # "num"

\* one reference per (color, size) with quantity > 0 (lines 1257-1287)
RECURSIVE SizeRefs(_, _)
SizeRefs(code, sizes) ==
    IF sizes = <<>> THEN <<>>
    ELSE (IF Head(sizes).quantity <= 0 THEN <<>>
          ELSE <<[color_code |-> code, size |-> Head(sizes).size,
                  quantity |-> Head(sizes).quantity]>>)
         \o SizeRefs(code, Tail(sizes))

RECURSIVE ColorRefs(_)
ColorRefs(colors) ==
    IF colors = <<>> THEN <<>>
    ELSE SizeRefs(Head(colors).color_code, Head(colors).sizes)
         \o ColorRefs(Tail(colors))

\* counter n of "{material_code}.{n}" is the position in encounter order
BuildReferences(colors) ==
    LET rs == ColorRefs(colors)
    IN [n \in 1..Len(rs) |->
          [counter |-> n, color_code |-> rs[n].color_code,
           size |-> rs[n].size, quantity |-> rs[n].quantity]]

\* index in processed of the first product with this material_code, 0 if none
ExistingIndex(raw, processed, code) ==
    IF \E k \in 1..Len(processed) : raw[processed[k]].material_code = code
    THEN processed[CHOOSE k \in 1..Len(processed) :
            /\ raw[processed[k]].material_code = code
            /\ \A m \in 1..(k-1) : raw[processed[m]].material_code # code]
    ELSE 0

\* loop body for products[i], lines 1113-1293
ConsolidateStep(acc, i) ==
    LET p == acc.raw[i]
        product_name == IF p.name = Null \/ p.name = Absent THEN "" ELSE p.name
        named == [p EXCEPT !.name = Upper(CleanName(product_name))]
        branded == IF named.brand = Absent THEN named
                   ELSE [named EXCEPT !.brand = Upper(named.brand)]
        has_basic_info == Truthy(p.material_code) /\ product_name # ""
        j == ExistingIndex(acc.raw, acc.processed, p.material_code)
    IN IF acc.raised THEN acc
       ELSE IF ~Truthy(p.material_code) THEN acc
       ELSE IF p.name = NonStr THEN [acc EXCEPT !.raised = TRUE]
       ELSE IF p.brand = Null
            THEN [acc EXCEPT !.raw[i] = named, !.raised = TRUE]
       ELSE IF ~(HasValidData(p) \/ has_basic_info)
            THEN [acc EXCEPT !.raw[i] = branded]
       ELSE IF j # 0
            THEN IF ~acc.raw[j].has_colors
                 THEN [acc EXCEPT !.raw[i] = branded, !.raised = TRUE]
                 ELSE LET merged == MergeColors(acc.raw[j].colors, branded.colors)
                      IN [acc EXCEPT !.raw[i] = branded,
                                     !.raw[j].colors = merged,
                                     !.raw[j].total_price = TotalPrice(merged)]
       ELSE IF SizesRaise(branded.colors)
            THEN [acc EXCEPT !.raw[i] = branded, !.raised = TRUE]
       ELSE [acc EXCEPT
               !.raw[i] = [branded EXCEPT !.has_refs = TRUE,
                              !.references = BuildReferences(branded.colors)],
               !.processed = Append(acc.processed, i)]

RECURSIVE ConsolidateLoop(_, _)
ConsolidateLoop(acc, i) ==
    IF i > Len(acc.raw) THEN acc
    ELSE ConsolidateLoop(ConsolidateStep(acc, i), i + 1)

\* processed_products.sort(key=material_code), line 1332 (stable)
RECURSIVE InsertByCode(_, _)
InsertByCode(sorted, p) ==
    IF sorted = <<>> THEN <<p>>
    ELSE IF CodeRank(p.material_code) < CodeRank(Head(sorted).material_code)
         THEN <<p>> \o sorted
         ELSE <<Head(sorted)>> \o InsertByCode(Tail(sorted), p)

RECURSIVE SortByCode(_)
SortByCode(ps) ==
    IF ps = <<>> THEN <<>>
    ELSE InsertByCode(SortByCode(SubSeq(ps, 1, Len(ps) - 1)), ps[Len(ps)])

\* outcomes of the external add_barcodes_to_products call (lines 1334-1341):
\* "ok", "import_error" (caught, logged) or "raises" (any other exception)
BarcodeOutcomes == {"ok", "import_error", "raises"}

\* _post_process_products: returns the consolidated list, or raises; `raw`
\* is the caller's list after the in-place mutations
post_process_products(products, barcode) ==
    LET acc == ConsolidateLoop([raw |-> products, processed |-> <<>>,
                                raised |-> FALSE], 1)
        listed == [k \in 1..Len(acc.processed) |-> acc.raw[acc.processed[k]]]
    IN IF acc.raised
       THEN [raised |-> TRUE, products |-> <<>>, raw |-> acc.raw]
       ELSE IF listed = <<>>
       THEN [raised |-> FALSE, products |-> <<>>, raw |-> acc.raw]
       ELSE IF barcode = "raises"
       THEN [raised |-> TRUE, products |-> <<>>, raw |-> acc.raw]
       ELSE [raised |-> FALSE, products |-> SortByCode(listed), raw |-> acc.raw]


(***************************************************************************)
(* Oracle responses.  A response text is described by what the regular     *)
(* expressions of the parsers see in it:                                   *)
(*   shape "json"  : one JSON document {"products": [...], "order_info":   *)
(*                   {...}}, inside a ``` fence or bare in the text        *)
(*     lead   : a further fenced block in front of the document: "junk"    *)
(*              (no braces, not JSON) or "object" (a JSON object without   *)
(*              "products"); "none" when there is no such block            *)
(*     key    : "products" (a list), "null" ("products": null) or "none"   *)
(*              (the object has no products key)                           *)
(*     defect : "none"; "repairable" (a trailing comma after the last      *)
(*              product, removed by _clean_json_string); "fragile" (valid  *)
(*              JSON with "//" inside an order_info string, which the      *)
(*              comment stripping of _clean_json_string destroys);         *)
(*              "cut_tail" (truncated inside order_info, after the         *)
(*              products array); "cut_mid" (truncated inside the products  *)
(*              array, `products` being the complete ones before the cut)  *)
(*   shape "prose" : free text without braces or fences; `codes` are the   *)
(*              "material_code": "..." occurrences in it                   *)
(***************************************************************************)
JsonResponse(fenced, lead, key, defect, products) ==
    [shape |-> "json", fenced |-> fenced, lead |-> lead, key |-> key,
     defect |-> defect, products |-> products, codes |-> <<>>]

ProseResponse(codes) ==
    [shape |-> "prose", fenced |-> FALSE, lead |-> "none", key |-> "none",
     defect |-> "none", products |-> <<>>, codes |-> codes]

\* a candidate JSON text cut out of the response by a regular expression
Block(defect, key, products) ==
    [defect |-> defect, key |-> key, products |-> products]

\* json.loads succeeds on the candidate; `cleaned` says whether
\* _clean_json_string was applied first (recovery_integration.py 106-124)
Parses(b, cleaned) ==
    CASE b.defect = "none" -> TRUE
      [] b.defect = "repairable" -> cleaned
      [] b.defect = "fragile" -> ~cleaned
      [] OTHER -> FALSE

DocBlock(r) == Block(r.defect, r.key, r.products)
LeadBlock(r) ==
    IF r.lead = "object" THEN Block("none", "none", <<>>)
    ELSE Block("invalid", "none", <<>>)

\* re.findall(r'```(?:json)?\s*([\s\S]*?)\s*```', response_text)
FencedBlocks(r) ==
    IF r.shape = "json" /\ r.fenced
    THEN (IF r.lead = "none" THEN <<>> ELSE <<LeadBlock(r)>>) \o <<DocBlock(r)>>
    ELSE <<>>

\* the text has a "{" followed somewhere by a "}"
HasBraces(r) ==
    /\ r.shape = "json"
    /\ \/ r.defect \notin {"cut_tail", "cut_mid"}
       \/ r.products # <<>>
       \/ r.lead = "object"

\* the greedy span from the first "{" to the last "}" of the text: the whole
\* document when it is complete and nothing with braces precedes it,
\* otherwise a text that is not JSON
BraceSpan(r) ==
    IF r.lead # "object" /\ r.defect \notin {"cut_tail", "cut_mid"}
    THEN DocBlock(r)
    ELSE Block("invalid", r.key, <<>>)

\* re.findall(r'"products"\s*:\s*(\[[\s\S]*?\])', text)[0] parsed as it is:
\* the lazy match ends at the first "]", which closes the products array
\* only when no product carries a list (no "colors" key)
PartialArrayFound(r) ==
    /\ r.shape = "json" /\ r.key = "products"
    /\ \/ r.defect # "cut_mid"
       \/ \E k \in 1..Len(r.products) : r.products[k].has_colors

PartialArrayParses(r) ==
    /\ PartialArrayFound(r)
    /\ r.defect \in {"none", "fragile", "cut_tail"}
    /\ \A k \in 1..Len(r.products) : ~r.products[k].has_colors

\* re.findall(r'"material_code"\s*:\s*"([^"]+)"', text)
RECURSIVE CodesOf(_)
CodesOf(products) ==
    IF products = <<>> THEN <<>>
    ELSE (IF Truthy(Head(products).material_code)
          THEN <<Head(products).material_code>> ELSE <<>>)
         \o CodesOf(Tail(products))

\* a scan that reports each material_code once
DistinctMaterialCodes(r) ==
    LET all == IF r.shape = "prose" THEN r.codes ELSE CodesOf(r.products)
    IN SelectSeq(MaterialCodeOrder, LAMBDA c : c \in SeqToSet(all))

MaterialCodeMatches(r) ==
    IF r.shape = "prose" THEN r.codes ELSE CodesOf(r.products)

(***************************************************************************)
(* recovery_integration.py: robust_json_parse and _sanitize_result         *)
(***************************************************************************)
\* _sanitize_result drops the elements that are not dicts and keeps every
\* dict product as it is, with or without code or colors (lines 127-161)
sanitize_result(products) == SelectSeq(products, LAMBDA p : p.is_dict)

EmergencyCap == 10

Placeholder(code) ==
    [is_dict |-> TRUE, material_code |-> code, name |-> "Produto " \o code,
     brand |-> Absent, has_colors |-> TRUE,
     colors |-> <<[color_code |-> "001", color_name |-> "Padrao",
                   sizes |-> <<Sz("UN", 1)>>, unit_price |-> 0,
                   subtotal |-> 0]>>,
     total_price |-> NoPrice, has_refs |-> FALSE, references |-> <<>>]

\* an emergency scan without the cap
EmergencyProductsUncapped(codes) == [k \in 1..Len(codes) |-> Placeholder(codes[k])]

\* material_codes[:10] turned into placeholder products (lines 79-93)
EmergencyProducts(codes) ==
    LET n == IF Len(codes) > EmergencyCap THEN EmergencyCap ELSE Len(codes)
    IN [k \in 1..n |-> Placeholder(codes[k])]

Hit(products, tag, stage, stages) ==
    [ok |-> TRUE, products |-> products, tag |-> tag, stage |-> stage,
     stages |-> stages]
Miss(stages) ==
    [ok |-> FALSE, products |-> <<>>, tag |-> "none", stage |-> "none",
     stages |-> stages]

\* Estrategia 1, lines 26-39: "hit" on the first block that parses to a dict
\* with "products"; "raise" when _sanitize_result iterates a null products
RECURSIVE FencedStage(_)
FencedStage(blocks) ==
    IF blocks = <<>> THEN [res |-> "miss", products |-> <<>>]
    ELSE LET b == Head(blocks)
         IN IF Parses(b, TRUE) /\ b.key # "none"
            THEN (IF b.key = "null" THEN [res |-> "raise", products |-> <<>>]
                  ELSE [res |-> "hit", products |-> sanitize_result(b.products)])
            ELSE FencedStage(Tail(blocks))

\* Estrategia 2, lines 41-54: the span must contain the word "products"
BraceStage(r) ==
    IF HasBraces(r) /\ r.key # "none" /\ Parses(BraceSpan(r), TRUE)
    THEN (IF BraceSpan(r).key = "null" THEN [res |-> "raise", products |-> <<>>]
          ELSE [res |-> "hit", products |-> sanitize_result(BraceSpan(r).products)])
    ELSE [res |-> "miss", products |-> <<>>]

\* a parser that runs the emergency scan before the partial array
robust_json_parse_scan_first(r) ==
    LET s1 == FencedStage(FencedBlocks(r))
        s2 == BraceStage(r)
        codes == MaterialCodeMatches(r)
    IN IF s1.res = "hit" THEN Hit(s1.products, "normal", "fenced", <<"fenced">>)
       ELSE IF s1.res = "raise" THEN Miss(<<"fenced">>)
       ELSE IF s2.res = "hit"
            THEN Hit(s2.products, "normal", "brace", <<"fenced", "brace">>)
       ELSE IF s2.res = "raise" THEN Miss(<<"fenced", "brace">>)
       ELSE IF codes # <<>>
            THEN Hit(sanitize_result(EmergencyProducts(codes)), "emergency",
                     "emergency", <<"fenced", "brace", "emergency">>)
       ELSE IF PartialArrayParses(r)
            THEN Hit(sanitize_result(r.products), "partial", "partial",
                     <<"fenced", "brace", "emergency", "partial">>)
       ELSE Miss(<<"fenced", "brace", "emergency", "partial">>)

robust_json_parse(r) ==
    LET s1 == FencedStage(FencedBlocks(r))
        s2 == BraceStage(r)
        codes == MaterialCodeMatches(r)
    IN IF s1.res = "hit" THEN Hit(s1.products, "normal", "fenced", <<"fenced">>)
       ELSE IF s1.res = "raise" THEN Miss(<<"fenced">>)
       ELSE IF s2.res = "hit"
            THEN Hit(s2.products, "normal", "brace", <<"fenced", "brace">>)
       ELSE IF s2.res = "raise" THEN Miss(<<"fenced", "brace">>)
       ELSE IF PartialArrayParses(r)
            THEN Hit(sanitize_result(r.products), "partial", "partial",
                     <<"fenced", "brace", "partial">>)
       ELSE IF codes # <<>>
            THEN Hit(sanitize_result(EmergencyProducts(codes)), "emergency",
                     "emergency", <<"fenced", "brace", "partial", "emergency">>)
       ELSE Miss(<<"fenced", "brace", "partial", "emergency">>)


(***************************************************************************)
(* app/utils/size_detection.py: SizeDetectionAgent                         *)
(***************************************************************************)
NumericLabels ==
    <<"24", "25", "26", "27", "28", "29", "30", "31", "32", "33", "34", "35",
      "36", "37", "38", "39", "40", "41", "42", "43", "44", "45", "46", "47",
      "48", "49", "50", "51", "52", "53", "54", "55", "56", "57", "58">>
NumericValue(s) == 23 + (CHOOSE i \in 1..Len(NumericLabels) : NumericLabels[i] = s)
IsNumericLabel(s) == \E i \in 1..Len(NumericLabels) : NumericLabels[i] = s

LetterSizes == {"XS", "S", "M", "L", "XL", "XXL", "XXXL", "2XL", "3XL"}
MixedSizes == {"38/XS", "40/S", "42/M", "44/L", "46/XL", "48/XXL"}
SizeSystems == <<"clothing_numeric_eu", "clothing_letters", "pants_numeric", "mixed_sizes">>

\* size_patterns[system]['pattern'], lines 11-32
MatchesPattern(system, s) ==
    CASE system = "clothing_numeric_eu" ->
            IsNumericLabel(s) /\ NumericValue(s) >= 32 /\ NumericValue(s) <= 58
      [] system = "clothing_letters" -> s \in LetterSizes
      [] system = "pants_numeric" ->
            IsNumericLabel(s) /\ NumericValue(s) >= 24 /\ NumericValue(s) <= 36
      [] system = "mixed_sizes" -> s \in MixedSizes
      [] OTHER -> FALSE

\* size_patterns[system]['sizes']: the even sizes 32..58, the letters,
\* 24..36 and the mixed sizes
InSizeList(s) ==
    \/ IsNumericLabel(s) /\ NumericValue(s) >= 32 /\ NumericValue(s) % 2 = 0
    \/ s \in LetterSizes
    \/ IsNumericLabel(s) /\ NumericValue(s) <= 36
    \/ s \in MixedSizes

\* _normalize_size: strip, upper (lines 67-81)
normalize_size(s) ==
    CASE s = "m" -> "M"
      [] s = "s" -> "S"
      [] s = "un" -> "UN"
      [] OTHER -> s

MatchCount(system, sizes) ==
    Cardinality({i \in 1..Len(sizes) : MatchesPattern(system, sizes[i])})

\* detect_size_system, lines 34-65: the first system with the best ratio of
\* matching sizes, when that ratio exceeds 0.6
detect_size_system(sizes) ==
    IF sizes = <<>> THEN "unknown"
    ELSE LET clean == [i \in 1..Len(sizes) |-> normalize_size(sizes[i])]
             best == CHOOSE k \in 1..Len(SizeSystems) :
                        /\ \A m \in 1..Len(SizeSystems) :
                              MatchCount(SizeSystems[m], clean)
                                 <= MatchCount(SizeSystems[k], clean)
                        /\ \A m \in 1..(k-1) :
                              MatchCount(SizeSystems[m], clean)
                                 < MatchCount(SizeSystems[k], clean)
         IN IF MatchCount(SizeSystems[best], clean) * 10 > 6 * Len(clean)
            THEN SizeSystems[best] ELSE "unknown"

is_valid_size_for_system(s, system) ==
    IF system = "unknown" THEN InSizeList(s) ELSE MatchesPattern(system, s)

\* validate_size_quantity_mapping, lines 83-120
RECURSIVE ValidatePairs(_, _)
ValidatePairs(pairs, system) ==
    IF pairs = <<>> THEN <<>>
    ELSE LET size == normalize_size(Head(pairs).size)
         IN (IF is_valid_size_for_system(size, system) /\ Head(pairs).quantity > 0
             THEN <<Sz(size, Head(pairs).quantity)>> ELSE <<>>)
            \o ValidatePairs(Tail(pairs), system)

validate_size_quantity_mapping(pairs) ==
    IF pairs = <<>> THEN <<>>
    ELSE ValidatePairs(pairs,
            detect_size_system([i \in 1..Len(pairs) |-> pairs[i].size]))

\* _get_size_sort_key, lines 218-239
SizeSortKey(s) ==
    CASE s \in {"XS"} -> 1
      [] s = "S" -> 2
      [] s = "M" -> 3
      [] s = "L" -> 4
      [] s \in {"XL", "2XL"} -> 5
      [] s = "XXL" -> 6
      [] s \in {"XXXL", "3XL"} -> 7
      [] IsNumericLabel(s) -> 100 + NumericValue(s)
      [] s = "38/XS" -> 238
      [] s = "40/S" -> 240
      [] s = "42/M" -> 242
      [] s = "44/L" -> 244
      [] s = "46/XL" -> 246
      [] s = "48/XXL" -> 248
      [] OTHER -> 1000

RECURSIVE InsertBySize(_, _)
InsertBySize(sorted, e) ==
    IF sorted = <<>> THEN <<e>>
    ELSE IF SizeSortKey(e.size) < SizeSortKey(Head(sorted).size)
         THEN <<e>> \o sorted
         ELSE <<Head(sorted)>> \o InsertBySize(Tail(sorted), e)

RECURSIVE SortBySize(_)
SortBySize(es) ==
    IF es = <<>> THEN <<>>
    ELSE InsertBySize(SortBySize(SubSeq(es, 1, Len(es) - 1)), es[Len(es)])

\* normalize_size_extraction, lines 196-216
normalize_size_extraction(sizes) ==
    IF sizes = <<>> THEN <<>>
    ELSE SortBySize(validate_size_quantity_mapping(sizes))


(***************************************************************************)
(* extraction_agent.py: ExtractionAgent._extract_and_clean_json (the       *)
(* original parser, kept as the fallback of the enhanced one) and          *)
(* _attempt_json_recovery                                                  *)
(***************************************************************************)
\* lines 710-721: entries whose quantity converts to a float > 0
RECURSIVE PreliminarySizes(_)
PreliminarySizes(sizes) ==
    IF sizes = <<>> THEN <<>>
    ELSE (IF Head(sizes).qkind \in {"num", "str"} /\ Head(sizes).quantity > 0
          THEN <<Sz(Head(sizes).size, Head(sizes).quantity)>> ELSE <<>>)
         \o PreliminarySizes(Tail(sizes))

\* lines 695-739: colors with their sizes cleaned; a color left without
\* sizes is dropped
RECURSIVE CleanColors(_)
CleanColors(colors) ==
    IF colors = <<>> THEN <<>>
    ELSE LET clean_sizes == normalize_size_extraction(PreliminarySizes(Head(colors).sizes))
         IN (IF clean_sizes # <<>>
             THEN <<[Head(colors) EXCEPT !.sizes = clean_sizes]>> ELSE <<>>)
            \o CleanColors(Tail(colors))

\* lines 678-767: products cleaned; a product left without colors is dropped
RECURSIVE CleanProducts(_)
CleanProducts(products) ==
    IF products = <<>> THEN <<>>
    ELSE LET p == Head(products)
             clean_colors == CleanColors(p.colors)
         IN (IF p.is_dict /\ clean_colors # <<>>
             THEN <<[p EXCEPT
                       !.name = IF p.name \in {Null, Absent} THEN "" ELSE p.name,
                       !.material_code = IF p.material_code \in {Null, Absent}
                                         THEN "" ELSE p.material_code,
                       !.has_colors = TRUE,
                       !.colors = clean_colors,
                       !.total_price = IF p.total_price = NoPrice
                                       THEN TotalPrice(clean_colors)
                                       ELSE p.total_price]>>
             ELSE <<>>)
            \o CleanProducts(Tail(products))

\* the text chosen by lines 621-659 is then parsed without cleaning and must
\* be an object (lines 662-667); a products value that is not a list
\* becomes [] (lines 670-671)
OriginalProcess(b, stage, stages) ==
    IF Parses(b, FALSE)
    THEN Hit(IF b.key = "products" THEN CleanProducts(b.products) ELSE <<>>,
             "normal", stage, stages)
    ELSE Miss(stages)

extract_and_clean_json(r) ==
    IF FencedBlocks(r) # <<>>
    THEN OriginalProcess(FencedBlocks(r)[1], "orig_fenced", <<"orig_fenced">>)
    ELSE IF HasBraces(r)
         THEN IF Parses(BraceSpan(r), FALSE) /\ BraceSpan(r).key # "none"
              THEN OriginalProcess(BraceSpan(r), "orig_brace",
                                   <<"orig_fenced", "orig_brace">>)
              ELSE Miss(<<"orig_fenced", "orig_brace">>)
         \* whole response: a text without braces never parses to an object
         ELSE Miss(<<"orig_fenced", "orig_brace", "orig_whole">>)

\* patch_gemini_extractor.enhanced_extract_and_clean_json, lines 352-363
enhanced_extract_and_clean_json(r) ==
    LET Enhanced(robust, original) ==
            IF robust.ok THEN robust
            ELSE [original EXCEPT !.stages = robust.stages \o original.stages]
    IN Enhanced(robust_json_parse(r), extract_and_clean_json(r))

\* _attempt_json_recovery, lines 788-822: every match of
\* {"name":...,"colors":[...]} is wrapped in one more pair of braces before
\* json.loads, which therefore fails on each of them
NameFirstObjects(r) ==
    SelectSeq(r.products, LAMBDA p : p.is_dict /\ Truthy(p.name) /\ p.has_colors)

BraceWrappedParses(p) == FALSE

attempt_json_recovery(r) ==
    LET products == SelectSeq(NameFirstObjects(r), BraceWrappedParses)
    IN IF products # <<>>
       THEN Hit(products, "partially_recovered", "product_scan", <<"product_scan">>)
       ELSE Miss(<<"product_scan">>)

(***************************************************************************)
(* Page results.  A page result is the dict returned for one page:         *)
(*   products, error (the "error" key is present), err_json (the error     *)
(*   text contains "json"), tag (recovery marker), strategy_used,          *)
(*   recovered (recovery_info present), skipped (page_skipped)             *)
(***************************************************************************)
PageResult(products, error, err_json, tag) ==
    [products |-> products, error |-> error, err_json |-> err_json,
     tag |-> tag, strategy_used |-> "none", recovered |-> FALSE,
     skipped |-> FALSE]

OracleError == [shape |-> "oracle_error"]

\* ExtractionAgent.process_page, lines 25-90, for the oracle's answer `r`
\* (a response text, or OracleError when the call or the image load raises;
\* `mentions_json` says whether that exception's text contains "json")
agent_process_page(r, mentions_json) ==
    IF r.shape = "oracle_error"
    THEN [result |-> PageResult(<<>>, TRUE, mentions_json, "none"), stages |-> <<>>]
    ELSE LET Page(parsed, fallback) ==
                 IF parsed.ok
                 THEN [result |-> PageResult(parsed.products, FALSE, FALSE, parsed.tag),
                       stages |-> parsed.stages]
                 ELSE IF fallback.ok
                 THEN [result |-> PageResult(fallback.products, FALSE, FALSE,
                                             fallback.tag),
                       stages |-> parsed.stages \o fallback.stages]
                 ELSE [result |-> PageResult(<<>>, TRUE, TRUE, "none"),
                       stages |-> parsed.stages \o fallback.stages]
         IN Page(enhanced_extract_and_clean_json(r), attempt_json_recovery(r))


(***************************************************************************)
(* generic_strategy_agent.py: GenericStrategyAgent.  Scores are kept in    *)
(* units of 1/10000; confidences of the layout analysis in thousandths.    *)
(***************************************************************************)
StrategyKeys ==
    <<"structured_table", "sequential_list", "adaptive_hybrid",
      "form_field_extraction", "conservative_scan">>

\* a registry whose table strategy falls back to the list strategy
StrategiesLongChain ==
    [structured_table |->
        [name |-> "Structured Table Extraction", confidence |-> 9000,
         approach |-> "table_extraction", fallback_strategy |-> "sequential_list"],
     sequential_list |->
        [name |-> "Sequential List Extraction", confidence |-> 8000,
         approach |-> "list_extraction", fallback_strategy |-> "adaptive_hybrid"],
     adaptive_hybrid |->
        [name |-> "Adaptive Hybrid Extraction", confidence |-> 7000,
         approach |-> "hybrid_extraction", fallback_strategy |-> "conservative_scan"],
     form_field_extraction |->
        [name |-> "Form Field Extraction", confidence |-> 6000,
         approach |-> "form_extraction", fallback_strategy |-> "adaptive_hybrid"],
     conservative_scan |->
        [name |-> "Conservative Scan Extraction", confidence |-> 4000,
         approach |-> "adaptive_extraction", fallback_strategy |-> "none"]]

\* _initialize_generic_strategies, lines 28-107
Strategies ==
    [structured_table |->
        [name |-> "Structured Table Extraction", confidence |-> 9000,
         approach |-> "table_extraction", fallback_strategy |-> "adaptive_hybrid"],
     sequential_list |->
        [name |-> "Sequential List Extraction", confidence |-> 8000,
         approach |-> "list_extraction", fallback_strategy |-> "adaptive_hybrid"],
     adaptive_hybrid |->
        [name |-> "Adaptive Hybrid Extraction", confidence |-> 7000,
         approach |-> "hybrid_extraction", fallback_strategy |-> "conservative_scan"],
     form_field_extraction |->
        [name |-> "Form Field Extraction", confidence |-> 6000,
         approach |-> "form_extraction", fallback_strategy |-> "adaptive_hybrid"],
     conservative_scan |->
        [name |-> "Conservative Scan Extraction", confidence |-> 4000,
         approach |-> "adaptive_extraction", fallback_strategy |-> "none"]]

\* _get_layout_compatibility, lines 228-275, in tenths
LayoutCompatibility(approach, layout_type) ==
    CASE approach = "table_extraction" ->
            (CASE layout_type = "GRID_TABULAR" -> 4
               [] layout_type = "LIST_VERTICAL" -> 1
               [] layout_type = "LIST_HORIZONTAL" -> 2
               [] layout_type = "HYBRID_MIXED" -> 2
               [] OTHER -> 0)
      [] approach = "list_extraction" ->
            (CASE layout_type = "GRID_TABULAR" -> 1
               [] layout_type = "LIST_VERTICAL" -> 4
               [] layout_type = "LIST_HORIZONTAL" -> 3
               [] layout_type = "HYBRID_MIXED" -> 2
               [] layout_type = "FORM_FIELDS" -> 1
               [] OTHER -> 0)
      [] approach = "hybrid_extraction" ->
            (CASE layout_type = "HYBRID_MIXED" -> 4
               [] layout_type = "FREE_TEXT" -> 1
               [] layout_type \in {"GRID_TABULAR", "LIST_VERTICAL",
                                   "LIST_HORIZONTAL", "FORM_FIELDS"} -> 2
               [] OTHER -> 0)
      [] approach = "form_extraction" ->
            (CASE layout_type = "FORM_FIELDS" -> 4
               [] layout_type \in {"LIST_VERTICAL", "LIST_HORIZONTAL",
                                   "HYBRID_MIXED"} -> 1
               [] OTHER -> 0)
      [] approach = "adaptive_extraction" ->
            (CASE layout_type = "FREE_TEXT" -> 3
               [] layout_type \in {"GRID_TABULAR", "LIST_VERTICAL",
                                   "LIST_HORIZONTAL", "HYBRID_MIXED",
                                   "FORM_FIELDS"} -> 1
               [] OTHER -> 0)
      [] OTHER -> 0

\* _calculate_complexity_bonus, lines 277-309
ComplexityBonus(approach, la) ==
    (IF la.visual_error THEN 0
     ELSE CASE la.complexity = "complex" ->
                 IF approach \in {"hybrid_extraction", "adaptive_extraction"}
                 THEN 1500 ELSE 0 - 500
            [] la.complexity = "simple" ->
                 IF approach \in {"table_extraction", "list_extraction"}
                 THEN 1000 ELSE 0
            [] OTHER -> 0)
    + (IF la.data_density = "high" /\ approach = "adaptive_extraction"
       THEN 1000 ELSE 0)

Clamp(x) == IF x < 0 THEN 0 ELSE IF x > 10000 THEN 10000 ELSE x

\* _calculate_layout_based_score, lines 140-226 (previous_results is None
\* for every caller, so the consistency bonus of lines 221-224 never applies)
LayoutBasedScore(key, la) ==
    LET st == Strategies[key]
        ap == st.approach
        technical ==
            IF la.technical_error THEN 0
            ELSE CASE ap = "table_extraction" /\ la.column_count >= 5 ->
                        3 * la.column_confidence
                   [] ap = "table_extraction" /\ la.column_count >= 3 ->
                        2 * la.column_confidence
                   [] ap = "list_extraction" /\ la.column_count >= 2
                         /\ la.column_count <= 4 -> 2 * la.column_confidence
                   [] OTHER -> 0
        visual ==
            IF la.visual_error THEN 0
            ELSE CASE ap = "table_extraction" ->
                        (IF la.has_clear_grid THEN 2000 ELSE 0)
                        + (IF la.has_headers THEN 1000 ELSE 0)
                        + (IF la.alignment_quality = "high" THEN 1000 ELSE 0)
                   [] ap = "list_extraction" ->
                        (IF la.repetitive_patterns THEN 2000 ELSE 0)
                        + (IF la.data_density \in {"medium", "high"} THEN 1000 ELSE 0)
                   [] ap = "form_extraction" ->
                        (IF la.primary_layout = "FORM_FIELDS" THEN 3000 ELSE 0)
                   [] OTHER -> 0
        content ==
            IF la.content_error THEN 0
            ELSE (IF la.has_table_structure
                  THEN (CASE ap = "table_extraction" -> 2 * la.table_confidence
                          [] ap = "hybrid_extraction" -> la.table_confidence
                          [] OTHER -> 0)
                  ELSE 0)
                 + (IF la.has_product_structure
                       /\ ap \in {"table_extraction", "list_extraction"}
                    THEN 1000 ELSE 0)
    IN Clamp(st.confidence
             + LayoutCompatibility(ap, la.layout_type) * la.confidence
             + technical + visual + content + ComplexityBonus(ap, la))

\* average of the recorded samples (thousandths), compared as sums
HistoryAdjust(history) ==
    IF SumSeq(history) > 800 * Len(history) THEN 500
    ELSE IF SumSeq(history) < 300 * Len(history) THEN 0 - 500
    ELSE 0

\* _apply_performance_history, lines 347-366: the scores are keyed by
\* registry key and looked up under that key in performance_history
AdjustedScore(key, la, perf) ==
    LayoutBasedScore(key, la)
    + (IF key \in DOMAIN perf THEN HistoryAdjust(perf[key]) ELSE 0)

\* select_strategy, lines 109-138: max() returns the first key with the
\* highest adjusted score
select_strategy(la, perf) ==
    StrategyKeys[CHOOSE k \in 1..Len(StrategyKeys) :
        /\ \A m \in 1..Len(StrategyKeys) :
              AdjustedScore(StrategyKeys[m], la, perf)
                 <= AdjustedScore(StrategyKeys[k], la, perf)
        /\ \A m \in 1..(k-1) :
              AdjustedScore(StrategyKeys[m], la, perf)
                 < AdjustedScore(StrategyKeys[k], la, perf)]

HistoryLimit == 10

\* a recorder that stops recording once the buffer is full
record_strategy_performance_keep_first(perf, name, quality) ==
    LET old == IF name \in DOMAIN perf THEN perf[name] ELSE <<>>
        kept == IF Len(old) >= HistoryLimit THEN old ELSE Append(old, quality)
    IN [n \in (DOMAIN perf) \cup {name} |-> IF n = name THEN kept ELSE perf[n]]

\* record_strategy_performance, lines 368-382
record_strategy_performance(perf, name, quality) ==
    LET old == IF name \in DOMAIN perf THEN perf[name] ELSE <<>>
        appended == Append(old, quality)
        kept == IF Len(appended) > HistoryLimit THEN Tail(appended) ELSE appended
    IN [n \in (DOMAIN perf) \cup {name} |-> IF n = name THEN kept ELSE perf[n]]

\* a product counted as complete by lines 405-409
IsComplete(p) ==
    /\ Truthy(p.name)
    /\ p.has_colors /\ p.colors # <<>>
    /\ \E k \in 1..Len(p.colors) : Len(p.colors[k].sizes) > 0

\* quality of a page result in thousandths (lines 395-411)
PageQuality(page_result) ==
    IF page_result.error \/ page_result.products = <<>> THEN 0
    ELSE (1000 * Cardinality({k \in 1..Len(page_result.products) :
                                IsComplete(page_result.products[k])}))
         \div Len(page_result.products)

QualityThreshold == 300

\* an adapter that also changes strategy at exactly the threshold
AdaptDecisionInclusive(current, quality, la, perf) ==
    IF quality <= QualityThreshold
    THEN IF Strategies[current].fallback_strategy # "none"
         THEN Strategies[current].fallback_strategy
         ELSE select_strategy(la, perf)
    ELSE "none"

\* an adapter that ignores the fallback edges and always asks the scorer
AdaptDecisionRescore(current, quality, la, perf) ==
    IF quality < QualityThreshold THEN select_strategy(la, perf) ELSE "none"

\* an adapter that repeats the current strategy when it has no fallback edge
AdaptDecisionRepeat(current, quality, la, perf) ==
    IF quality < QualityThreshold
    THEN IF Strategies[current].fallback_strategy # "none"
         THEN Strategies[current].fallback_strategy
         ELSE current
    ELSE "none"

\* the decision of lines 416-432: the new strategy, or "none" to keep
AdaptDecision(current, quality, la, perf) ==
    IF quality < QualityThreshold
    THEN IF Strategies[current].fallback_strategy # "none"
         THEN Strategies[current].fallback_strategy
         ELSE select_strategy(la, perf)
    ELSE "none"

\* adapt_strategy_for_page, lines 384-432
adapt_strategy_for_page(current, page_result, la, perf) ==
    LET Decide(quality, recorded) ==
            [quality |-> quality, perf |-> recorded,
             new_strategy |-> AdaptDecision(current, quality, la, recorded)]
        Record(quality) ==
            Decide(quality,
                   record_strategy_performance(perf, Strategies[current].name, quality))
    IN Record(PageQuality(page_result))


(***************************************************************************)
(* Layout analyses handed to the strategy agent (the dict returned by      *)
(* LayoutDetetionAgent.analyze_document_structure).                        *)
(***************************************************************************)
\* _get_fallback_analysis, layout_detetion_agent.py lines 871-889
FallbackAnalysis ==
    [layout_type |-> "HYBRID_MIXED", confidence |-> 300,
     technical_error |-> TRUE, column_count |-> 0, column_confidence |-> 0,
     visual_error |-> TRUE, has_clear_grid |-> FALSE, has_headers |-> FALSE,
     alignment_quality |-> "none", repetitive_patterns |-> FALSE,
     data_density |-> "none", primary_layout |-> "none",
     complexity |-> "simple",
     content_error |-> TRUE, has_table_structure |-> FALSE,
     table_confidence |-> 0, has_product_structure |-> FALSE]

GridAnalysis ==
    [FallbackAnalysis EXCEPT
        !.layout_type = "GRID_TABULAR", !.confidence = 950,
        !.technical_error = FALSE, !.column_count = 6, !.column_confidence = 900,
        !.visual_error = FALSE, !.has_clear_grid = TRUE, !.has_headers = TRUE,
        !.alignment_quality = "high", !.data_density = "high",
        !.primary_layout = "GRID_TABULAR",
        !.content_error = FALSE, !.has_table_structure = TRUE,
        !.table_confidence = 800, !.has_product_structure = TRUE]

ListAnalysis ==
    [FallbackAnalysis EXCEPT
        !.layout_type = "LIST_VERTICAL", !.confidence = 950,
        !.technical_error = FALSE, !.column_count = 2, !.column_confidence = 800,
        !.visual_error = FALSE, !.repetitive_patterns = TRUE,
        !.data_density = "medium", !.primary_layout = "LIST_VERTICAL",
        !.complexity = "complex", !.content_error = FALSE]

FormAnalysis ==
    [FallbackAnalysis EXCEPT
        !.layout_type = "FORM_FIELDS", !.confidence = 950,
        !.visual_error = FALSE, !.data_density = "low",
        !.primary_layout = "FORM_FIELDS", !.complexity = "moderate"]

FreeTextAnalysis ==
    [FallbackAnalysis EXCEPT
        !.layout_type = "FREE_TEXT", !.confidence = 950,
        !.visual_error = FALSE, !.data_density = "high",
        !.primary_layout = "FREE_TEXT", !.complexity = "complex"]

LayoutSamples ==
    {FallbackAnalysis, GridAnalysis, ListAnalysis, FormAnalysis, FreeTextAnalysis}


(***************************************************************************)
(* layout_detetion_agent.py: LayoutDetetionAgent.  The three analyzer      *)
(* outputs are described by the keys _determine_layout_strategy reads;     *)
(* confidences are in thousandths, layout scores and the confidence of the *)
(* decision in units of 1/10000.                                           *)
(*   error     : the analyzer caught its exception and returned {"error"}  *)
(*   malformed : (visual only) the oracle's JSON is not of the expected    *)
(*               shape, so reading it raises inside the scorer             *)
(***************************************************************************)
Indicator(type, confidence) == [type |-> type, confidence |-> confidence]

Technical(id, column_count, column_confidence, row_confidence, alignment_confidence, table_indicators) ==
    [id |-> id, error |-> FALSE, column_count |-> column_count,
     column_confidence |-> column_confidence,
     row_confidence |-> row_confidence,
     alignment_confidence |-> alignment_confidence,
     table_indicators |-> table_indicators]

TechnicalError ==
    [Technical("tech_error", 0, 0, 0, 0, <<>>) EXCEPT !.error = TRUE]

TechnicalSamples ==
    { TechnicalError,
      Technical("tech_none", 0, 0, 0, 0, <<>>),
      Technical("tech_grid", 6, 900, 800, 900,
                <<Indicator("number_grid", 800), Indicator("table_headers", 500)>>),
      Technical("tech_list", 3, 1000, 800, 500,
                <<Indicator("repetitive_structure", 500)>>) }

Visual(id, primary_layout, confidence, has_clear_grid, repetitive_patterns) ==
    [id |-> id, error |-> FALSE, malformed |-> FALSE,
     primary_layout |-> primary_layout, confidence |-> confidence,
     has_clear_grid |-> has_clear_grid,
     repetitive_patterns |-> repetitive_patterns]

VisualError ==
    [Visual("vis_error", "", 0, FALSE, FALSE) EXCEPT !.error = TRUE]

VisualMalformed ==
    [Visual("vis_malformed", "", 0, FALSE, FALSE) EXCEPT !.malformed = TRUE]

VisualSamples ==
    { VisualError, VisualMalformed,
      Visual("vis_grid", "GRID_TABULAR", 900, TRUE, TRUE),
      Visual("vis_list", "LIST_VERTICAL", 750, FALSE, TRUE),
      Visual("vis_free", "FREE_TEXT", 1000, FALSE, FALSE),
      Visual("vis_form", "FORM_FIELDS", 500, FALSE, FALSE),
      Visual("vis_weak", "LIST_HORIZONTAL", 250, FALSE, TRUE),
      Visual("vis_unknown", "CARDS", 1000, FALSE, TRUE) }

Content(id, has_product_structure, has_table_structure, table_confidence, is_structured, structure_score) ==
    [id |-> id, error |-> FALSE,
     has_product_structure |-> has_product_structure,
     has_table_structure |-> has_table_structure,
     table_confidence |-> table_confidence,
     is_structured |-> is_structured, structure_score |-> structure_score]

ContentError ==
    [Content("cont_error", FALSE, FALSE, 0, FALSE, 0) EXCEPT !.error = TRUE]

ContentSamples ==
    { ContentError,
      Content("cont_none", FALSE, FALSE, 0, FALSE, 0),
      Content("cont_products", TRUE, FALSE, 0, TRUE, 1000),
      Content("cont_table", TRUE, TRUE, 750, TRUE, 500) }

\* the keys of layout_scores in insertion order (lines 620-627)
LayoutTypes ==
    <<"GRID_TABULAR", "LIST_VERTICAL", "LIST_HORIZONTAL", "HYBRID_MIXED",
      "FORM_FIELDS", "FREE_TEXT">>

ZeroScores == [t \in SeqToSet(LayoutTypes) |-> 0]

\* scores[t] += amount; other keys unchanged
AddScore(scores, t, amount) == [scores EXCEPT ![t] = @ + amount]

\* the loop over technical["table_indicators"], lines 649-656
RECURSIVE IndicatorScores(_, _)
IndicatorScores(scores, indicators) ==
    IF indicators = <<>> THEN scores
    ELSE LET i == Head(indicators)
             next ==
                CASE i.type = "number_grid" ->
                        AddScore(scores, "GRID_TABULAR", 3 * i.confidence)
                  [] i.type = "table_headers" ->
                        AddScore(scores, "GRID_TABULAR", 2 * i.confidence)
                  [] i.type = "repetitive_structure" ->
                        AddScore(scores, "LIST_VERTICAL", 2 * i.confidence)
                  [] OTHER -> scores
         IN IndicatorScores(next, Tail(indicators))

\* technical analysis, lines 630-656
TechnicalPart(scores, technical) ==
    IF technical.error THEN scores
    ELSE LET columns ==
                 IF technical.column_count >= 5
                 THEN AddScore(scores, "GRID_TABULAR", 3 * technical.column_confidence)
                 ELSE IF technical.column_count >= 2
                 THEN AddScore(scores, "LIST_VERTICAL", 2 * technical.column_confidence)
                 ELSE scores
             rows ==
                 IF technical.row_confidence > 700
                 THEN AddScore(AddScore(columns, "GRID_TABULAR", 2000),
                               "LIST_VERTICAL", 1000)
                 ELSE columns
             aligned ==
                 IF technical.alignment_confidence > 800
                 THEN AddScore(rows, "GRID_TABULAR", 2000)
                 ELSE rows
         IN IndicatorScores(aligned, technical.table_indicators)

\* visual analysis, lines 658-671
VisualPart(scores, visual) ==
    IF visual.error THEN scores
    ELSE LET primary ==
                 IF visual.primary_layout \in SeqToSet(LayoutTypes)
                 THEN AddScore(scores, visual.primary_layout, 4 * visual.confidence)
                 ELSE scores
             grid ==
                 IF visual.has_clear_grid
                 THEN AddScore(primary, "GRID_TABULAR", 2000)
                 ELSE primary
         IN IF visual.repetitive_patterns
            THEN AddScore(AddScore(grid, "LIST_VERTICAL", 1000),
                          "GRID_TABULAR", 1000)
            ELSE grid

\* content analysis, lines 673-692
ContentPart(scores, content) ==
    IF content.error THEN scores
    ELSE LET products ==
                 IF content.has_product_structure
                 THEN AddScore(AddScore(scores, "GRID_TABULAR", 1000),
                               "LIST_VERTICAL", 1000)
                 ELSE scores
             table ==
                 IF content.has_table_structure
                 THEN AddScore(products, "GRID_TABULAR", 2 * content.table_confidence)
                 ELSE products
         IN IF content.is_structured
            THEN AddScore(AddScore(table, "GRID_TABULAR", content.structure_score),
                          "LIST_VERTICAL", content.structure_score)
            ELSE table

LayoutScores(technical, visual, content) ==
    ContentPart(VisualPart(TechnicalPart(ZeroScores, technical), visual), content)

\* the tied best layouts, in key order
BestLayouts(scores) ==
    SelectSeq(LayoutTypes,
              LAMBDA t : \A u \in SeqToSet(LayoutTypes) : scores[u] <= scores[t])

\* a choice among tied layouts that changes from one call to the next
BestLayoutRotating(scores, calls) ==
    BestLayouts(scores)[(calls % Len(BestLayouts(scores))) + 1]

\* max(layout_scores, key=layout_scores.get), line 695: the first key with
\* the highest score; `calls`, the number of analyses the agent has made
\* before, is not read
BestLayout(scores, calls) == BestLayouts(scores)[1]

\* strategy_mapping, lines 699-706
StrategyMapping(layout_type) ==
    CASE layout_type = "GRID_TABULAR" -> "table_extraction"
      [] layout_type = "LIST_VERTICAL" -> "list_extraction"
      [] layout_type = "LIST_HORIZONTAL" -> "horizontal_list_extraction"
      [] layout_type = "HYBRID_MIXED" -> "hybrid_extraction"
      [] layout_type = "FORM_FIELDS" -> "form_extraction"
      [] layout_type = "FREE_TEXT" -> "adaptive_extraction"

ConfidenceFloor == 3000
ConfidenceCeiling == 9500

\* a confidence that is the best score itself, capped only from above
LayoutConfidenceUnfloored(best_score) ==
    IF best_score > ConfidenceCeiling THEN ConfidenceCeiling ELSE best_score

\* lines 709-715
LayoutConfidence(best_score) ==
    IF best_score < ConfidenceFloor THEN ConfidenceFloor
    ELSE IF best_score > ConfidenceCeiling THEN ConfidenceCeiling
    ELSE best_score

\* _determine_layout_strategy, lines 610-735; reading a malformed visual
\* analysis raises
determine_layout_strategy(technical, visual, content, calls) ==
    LET Decide(scores, best) ==
            [raised |-> FALSE, aborted |-> FALSE,
             layout_type |-> IF scores[best] < ConfidenceFloor
                             THEN "HYBRID_MIXED" ELSE best,
             extraction_strategy |-> IF scores[best] < ConfidenceFloor
                                     THEN "adaptive_extraction"
                                     ELSE StrategyMapping(best),
             confidence |-> LayoutConfidence(scores[best]),
             layout_scores |-> scores]
        Score(scores) == Decide(scores, BestLayout(scores, calls))
    IN IF ~visual.error /\ visual.malformed
       THEN [raised |-> TRUE, aborted |-> FALSE, layout_type |-> "none",
             extraction_strategy |-> "none", confidence |-> 0,
             layout_scores |-> ZeroScores]
       ELSE Score(LayoutScores(technical, visual, content))

\* _get_fallback_analysis, lines 871-889 (layout_scores is {})
NeutralAnalysis ==
    [raised |-> TRUE, aborted |-> FALSE, layout_type |-> "HYBRID_MIXED",
     extraction_strategy |-> "adaptive_extraction",
     confidence |-> ConfidenceFloor, layout_scores |-> ZeroScores]

\* an analysis without the handler of lines 37-39: the exception escapes
analyze_document_structure_unguarded(technical, visual, content, calls) ==
    LET Escape(d) == IF d.raised THEN [d EXCEPT !.aborted = TRUE] ELSE d
    IN Escape(determine_layout_strategy(technical, visual, content, calls))

\* analyze_document_structure, lines 23-39: the analyzers catch their own
\* exceptions (lines 106-108, 467-469, 492-494); an exception of the scorer
\* gives the fallback analysis
analyze_document_structure(technical, visual, content, calls) ==
    LET Guard(d) == IF d.raised THEN NeutralAnalysis ELSE d
    IN Guard(determine_layout_strategy(technical, visual, content, calls))


(***************************************************************************)
(* gemini_extractor.py: GeminiExtractor.extract_with_validation.  A        *)
(* candidate product set is named by where it came from ("initial" or      *)
(* "retry"); confidence scores are in thousandths.  The validation agent   *)
(* is a collaborator whose call returns a ValidationResult or raises; the  *)
(* agent of validators/validation_agent.py raises on every call (the name  *)
(* `products` read at its line 60 is not defined), which is the outcome    *)
(* "raises".                                                               *)
(***************************************************************************)
ConfidenceScores == {100, 200, 450, 500, 800}

Raises == [raised |-> TRUE]

\* validation_agent.validate_extraction(extracted_products=...), lines
\* 328-333 and 372-377: the ValidationResult for the candidate, or raises
ValidationOutcomes(set) ==
    {Raises} \cup
    {[raised |-> FALSE, set |-> set, confidence_score |-> c] : c \in ConfidenceScores}

\* _retry_extraction_with_different_strategy, lines 107-133: the products
\* of a focused re-extraction, or [] (also when it raised)
RetryExtractions == {"none", "retry"}

RetryThreshold == 500
DefaultMaxRetries == 1

\* a loop condition that allows one retry more than max_retries
RetryAllowedOnceMore(confidence_score, retry_count, max_retries) ==
    confidence_score < RetryThreshold /\ retry_count <= max_retries

\* the loop condition of lines 360-361
RetryAllowed(confidence_score, retry_count, max_retries) ==
    confidence_score < RetryThreshold /\ retry_count < max_retries

\* lines 371-377: a non-empty re-extraction is validated and its result
\* replaces validation_result
RetriedResult(validation_result, alternative, outcome) ==
    IF alternative # "none" THEN outcome ELSE validation_result

(***************************************************************************)
(* recovery_integration.py: recover_failed_page and the enhanced           *)
(* process_page; gemini_extractor.py: GeminiExtractor.process_page         *)
(***************************************************************************)
\* one recovery strategy (lines 214-340): a new oracle call parsed by
\* robust_json_parse; it counts only when it yields products
RecoveryAttempt(answer) ==
    IF answer.shape = "oracle_error" THEN Miss(<<>>)
    ELSE LET Counted(parsed) ==
                 IF parsed.ok /\ parsed.products # <<>> THEN parsed
                 ELSE Miss(parsed.stages)
         IN Counted(robust_json_parse(answer))

\* recover_failed_page, lines 163-211: two strategies tried in order
recover_failed_page(answers) ==
    LET Recovered(hit) ==
            IF hit.ok
            THEN [PageResult(hit.products, FALSE, FALSE, hit.tag)
                    EXCEPT !.recovered = TRUE]
            ELSE PageResult(<<>>, TRUE, TRUE, "none")
        FirstHit(first, second) == IF first.ok THEN first ELSE second
    IN Recovered(FirstHit(RecoveryAttempt(answers[1]), RecoveryAttempt(answers[2])))

\* GeminiExtractor.process_page, lines 734-778, for page n: strategy
\* adaptation from the last entry of page_results_history, then the
\* extraction agent; the result is stamped and appended to the history
\* the state left by the adaptation step and the stamped page result
PageOutcome(adapted, agent, history) ==
    [strategy |-> adapted.strategy,
     perf |-> adapted.perf,
     history |-> Append(history,
                        [agent.result EXCEPT !.strategy_used = adapted.strategy]),
     result |-> [agent.result EXCEPT !.strategy_used = adapted.strategy],
     stages |-> agent.stages,
     adapting |-> adapted.adapting,
     quality |-> adapted.quality,
     decision |-> adapted.decision]

\* an adaptation that measures the first page of the history, not the last
AdaptationStepFirstPage(n, strategy, la, perf, history) ==
    IF n > 1 /\ history # <<>>
    THEN LET Adopt(adapted) ==
                 [adapting |-> TRUE, quality |-> adapted.quality,
                  decision |-> adapted.new_strategy, perf |-> adapted.perf,
                  strategy |-> IF adapted.new_strategy # "none"
                               THEN adapted.new_strategy ELSE strategy]
         IN Adopt(adapt_strategy_for_page(strategy, history[1], la, perf))
    ELSE [adapting |-> FALSE, quality |-> 0, decision |-> "none", perf |-> perf,
          strategy |-> strategy]

\* lines 745-759: `if new_strategy:` assigns it, None keeps the current one
AdaptationStep(n, strategy, la, perf, history) ==
    IF n > 1 /\ history # <<>>
    THEN LET Adopt(adapted) ==
                 [adapting |-> TRUE, quality |-> adapted.quality,
                  decision |-> adapted.new_strategy, perf |-> adapted.perf,
                  strategy |-> IF adapted.new_strategy # "none"
                               THEN adapted.new_strategy ELSE strategy]
         IN Adopt(adapt_strategy_for_page(strategy, history[Len(history)], la, perf))
    ELSE [adapting |-> FALSE, quality |-> 0, decision |-> "none", perf |-> perf,
          strategy |-> strategy]

\* lines 754-759 and _update_context_with_new_strategy (780-802): the
\* strategies whose instructions the context handed to the extraction agent
\* carries; the update is made on process_page's own parameter
PageContext(context, adapted) ==
    IF adapted.decision # "none"
    THEN <<context, adapted.strategy>> ELSE <<context>>

original_process_page(n, answer, mentions_json, strategy, la, perf, history) ==
    PageOutcome(AdaptationStep(n, strategy, la, perf, history),
                agent_process_page(answer, mentions_json), history)

\* patch_gemini_extractor.enhanced_process_page, lines 371-416
enhanced_process_page(n, original, answers) ==
    LET Enhanced(result, recovery) ==
            IF result.products # <<>> \/ ~result.error
            THEN [raised |-> FALSE, result |-> result]
            ELSE IF (n > 1 \/ result.err_json) /\ recovery.products # <<>>
                 THEN [raised |-> FALSE, result |-> recovery]
            ELSE IF n = 1
                 THEN [raised |-> TRUE, result |-> result]
            ELSE [raised |-> FALSE,
                  result |-> [PageResult(<<>>, TRUE, result.err_json, "none")
                                EXCEPT !.skipped = TRUE]]
    IN Enhanced(original.result, recover_failed_page(answers))

(***************************************************************************)
(* gemini_extractor.py: the tail of extract_document (lines 916-1094) and  *)
(* json_utils.fix_nan_in_products                                          *)
(***************************************************************************)
\* len(color_code) > 3 on the sample color codes (line 1065)
IsLongColorCode(c) == c = "X0707"

\* the standard code the color mapping gives to a supplier's own code
MappedColorCode == "999"

\* ColorMappingAgent.map_product_colors (called at lines 919-937) on the
\* sample codes: supplier codes are replaced by standard 3-character codes
map_product_colors(products) ==
    [i \in 1..Len(products) |->
        [products[i] EXCEPT !.colors =
            [k \in 1..Len(products[i].colors) |->
                IF IsLongColorCode(products[i].colors[k].color_code)
                THEN [products[i].colors[k] EXCEPT !.color_code = MappedColorCode]
                ELSE products[i].colors[k]]]]

ColorMappingOutcomes == {"mapped", "error"}

\* fix_nan_in_products raises TypeError at `total_quantity += qty` when a
\* color has no subtotal and a quantity that is not a number (lines 154-166)
FixNanRaises(products) ==
    \E i \in 1..Len(products) : \E k \in 1..Len(products[i].colors) :
        /\ products[i].colors[k].subtotal = NoPrice
        /\ \E j \in 1..Len(products[i].colors[k].sizes) :
              products[i].colors[k].sizes[j].qkind # "num"

RECURSIVE QuantitySum(_)
QuantitySum(sizes) ==
    IF sizes = <<>> THEN 0 ELSE Head(sizes).quantity + QuantitySum(Tail(sizes))

\* fix_nan_in_products, json_utils.py lines 112-205
FixColor(c) ==
    [c EXCEPT !.subtotal = IF c.subtotal = NoPrice
                           THEN c.unit_price * QuantitySum(c.sizes)
                           ELSE c.subtotal]

fix_nan_in_products(products) ==
    [i \in 1..Len(products) |->
        LET colors == [k \in 1..Len(products[i].colors) |->
                          FixColor(products[i].colors[k])]
        IN [products[i] EXCEPT
              !.colors = colors,
              !.total_price = IF products[i].total_price = NoPrice
                              THEN SumSeq([k \in 1..Len(colors) |-> colors[k].subtotal])
                              ELSE products[i].total_price]]

\* needs_validation, lines 1060-1067
NeedsValidation(products) ==
    \E i \in 1..Len(products) : \E k \in 1..Len(products[i].colors) :
        IsLongColorCode(products[i].colors[k].color_code)

\* lines 916-1094: color mapping, consolidation with its fallback to the
\* unconsolidated list, NaN repair, job update, final validation.  The
\* imported ValidationAgent (validators/validation_agent.py) has no method
\* validate_extraction_result, so line 1072 raises AttributeError.
\* lines 962-1094, from the products left by the consolidation step
FinishProcessed(processed, consolidated) ==
    IF FixNanRaises(processed) \/ NeedsValidation(processed)
    THEN [status |-> "failed", products |-> <<>>, consolidated |-> FALSE]
    ELSE [status |-> "completed", products |-> fix_nan_in_products(processed),
          consolidated |-> consolidated]

\* lines 962-971: an empty consolidated list is replaced by the list that
\* went into the consolidation
FinishConsolidated(post) ==
    FinishProcessed(IF post.products # <<>> THEN post.products ELSE post.raw,
                    post.products # <<>>)

\* line 995: len(set(_strategy_used of the page history)) - 1
strategy_adaptations(history) ==
    Cardinality({history[i].strategy_used : i \in 1..Len(history)}) - 1

\* the _metadata block of lines 997-1007
Metadata(pages, strategy, history) ==
    [pages_processed |-> pages, final_strategy |-> strategy,
     strategy_adaptations |-> strategy_adaptations(history)]

FinishDocument(products, mapping, barcode) ==
    FinishConsolidated(
        post_process_products(IF products # <<>> /\ mapping = "mapped"
                              THEN map_product_colors(products) ELSE products,
                              barcode))

(***************************************************************************)
(* Bounds and the answers the oracle (the Gemini model) may give           *)
(***************************************************************************)
MaxPages == 3
MaxMatches == 12
MaxProducts == 2

Fenced(products) == JsonResponse(TRUE, "none", "products", "none", products)

\* a page with `n` products of which `c` are complete
QualityPage(c, n) == Fenced([k \in 1..n |-> IF k <= c THEN PCf1 ELSE PBare])

Repeated(code, n) == [k \in 1..n |-> code]

PageAnswers ==
    { Fenced(<<PScenA>>), Fenced(<<PCf1>>), Fenced(<<PBare, PBare>>),
      Fenced(<<PStrQtyNoSub>>), Fenced(<<PLongCode>>),
      QualityPage(3, 10), QualityPage(2, 10),
      ProseResponse(<<>>), OracleError }

RecoveryAnswers == { Fenced(<<PCf2>>), OracleError }

\* the layouts of the documents run through the pipeline
DocumentLayouts == { GridAnalysis, ListAnalysis, FreeTextAnalysis }

(***************************************************************************)
(* State                                                                   *)
(***************************************************************************)
VARIABLES
    pc,                    \* "start", "pages", "finish", "done"
    total_pages,           \* len(image_paths)
    page_num,              \* the page the loop of extract_document is at
    layout,                \* GeminiExtractor.current_layout_analysis
    current_strategy,      \* GeminiExtractor.current_strategy (registry key)
    page_results_history,  \* GeminiExtractor.page_results_history
    performance_history,   \* GenericStrategyAgent.performance_history
    combined_products,     \* combined_result["products"]
    job_status,            \* jobs_store[job_id]["model_results"]["gemini"]["status"]
    job_error,             \* whether that entry carries an "error" message
    result,                \* what extract_document returned
    page_log,              \* per processed page: answer, outcome, adaptation
    context_description,   \* the strategy whose instructions the context of
                           \* extract_document carries ("none": no strategy)
    response,              \* a response text handed to the JSON parsers
    robust_out,            \* what robust_json_parse made of `response`
    agent_out,             \* what ExtractionAgent.process_page made of it
    cons_in,               \* a product list handed to _post_process_products
    cons_out,              \* what _post_process_products made of it
    signals,               \* the three analyzer outputs of a layout analysis
    analyses,              \* what analyze_document_structure returned, per call
    validation,            \* extract_with_validation: its locals and position
    recorded,              \* every call of record_strategy_performance, in order
    cancel_requested,      \* pages done when cancellation was requested, or 0
    jobs                   \* the extractors of concurrently processed documents

vars == <<pc, total_pages, page_num, layout, current_strategy,
          page_results_history, performance_history, combined_products,
          job_status, job_error, result, page_log, response, robust_out,
          agent_out, cons_in, cons_out, signals, analyses, validation,
          recorded, context_description, cancel_requested, jobs>>

docVars == <<pc, total_pages, page_num, layout, current_strategy,
             page_results_history, performance_history, combined_products,
             job_status, job_error, result, page_log, context_description>>
parseVars == <<response, robust_out, agent_out>>
consVars == <<cons_in, cons_out>>
layoutVars == <<signals, analyses>>
jobVars == <<cancel_requested, jobs>>
unitVars == <<signals, analyses, validation, recorded, cancel_requested, jobs>>

EmptyAnalysis == [FallbackAnalysis EXCEPT !.layout_type = "UNKNOWN", !.confidence = 0]
EmptyHistory == [n \in {} |-> <<>>]
NoMetadata == [pages_processed |-> 0, final_strategy |-> "none",
               strategy_adaptations |-> 0]
NoResult == [kind |-> "none", products |-> <<>>, consolidated |-> FALSE,
             metadata |-> NoMetadata]
ErrorResult == [kind |-> "error", products |-> <<>>, consolidated |-> FALSE,
                metadata |-> NoMetadata]
NotRun == [ran |-> FALSE, ok |-> FALSE, products |-> <<>>, tag |-> "none",
           stages |-> <<>>]
NoList == [ran |-> FALSE, raised |-> FALSE, products |-> <<>>, barcode |-> "ok"]

\* GeminiExtractor.__init__ (lines 53-76) and an empty job entry
DocIdle ==
    /\ pc = "start"
    /\ total_pages = 0
    /\ page_num = 0
    /\ layout = EmptyAnalysis
    /\ current_strategy = "none"
    /\ page_results_history = <<>>
    /\ performance_history = EmptyHistory
    /\ combined_products = <<>>
    /\ job_status = "none"
    /\ job_error = FALSE
    /\ result = NoResult
    /\ page_log = <<>>
    /\ context_description = "none"

ParseIdle ==
    /\ response = OracleError
    /\ robust_out = NotRun
    /\ agent_out = NotRun

ConsIdle ==
    /\ cons_in = <<>>
    /\ cons_out = NoList

NoSignals == [id |-> "none"]
NoValidation == [pc |-> "idle"]

UnitIdle ==
    /\ signals = <<NoSignals, NoSignals, NoSignals>>
    /\ analyses = <<>>
    /\ validation = NoValidation
    /\ recorded = <<>>
    /\ cancel_requested = 0
    /\ jobs = <<>>

Init == DocIdle /\ ParseIdle /\ ConsIdle /\ UnitIdle

(***************************************************************************)
(* Document pipeline: GeminiExtractor.extract_document                     *)
(***************************************************************************)
\* a PDF: analyze_context (lines 78-105) analyses the layout and selects
\* the first strategy; the PDF is converted to 1..MaxPages page images
AnalyzeContext ==
    /\ pc = "start"
    /\ \E la \in DocumentLayouts, n \in 1..MaxPages :
          /\ layout' = la
          /\ total_pages' = n
          /\ current_strategy' = select_strategy(la, performance_history)
          /\ context_description' = select_strategy(la, performance_history)
    /\ page_num' = 1
    /\ job_status' = "processing"
    /\ pc' = "pages"
    /\ UNCHANGED <<page_results_history, performance_history,
                   combined_products, job_error, result, page_log>>
    /\ UNCHANGED parseVars /\ UNCHANGED consVars /\ UNCHANGED unitVars

\* an image file: no analysis, no strategy, one page (lines 843-859)
StartImage ==
    /\ pc = "start"
    /\ total_pages' = 1
    /\ page_num' = 1
    /\ job_status' = "processing"
    /\ pc' = "pages"
    /\ UNCHANGED <<layout, current_strategy, page_results_history,
                   performance_history, combined_products, job_error,
                   result, page_log, context_description>>
    /\ UNCHANGED parseVars /\ UNCHANGED consVars /\ UNCHANGED unitVars

\* the recovery runs when the page failed without products and it is not
\* page 1 or the error text mentions json (recovery_integration.py 388-390)
RecoveryRuns(n, page_result) ==
    /\ page_result.error /\ page_result.products = <<>>
    /\ n > 1 \/ page_result.err_json

NoRecoveryAnswers == <<OracleError, OracleError>>

\* `"error" in page_result and not page_result.get("products")` (line 896),
\* or process_page raised
PageFailed(out) ==
    out.raised \/ (out.result.error /\ out.result.products = <<>>)

\* a page that never stops the document
PageNeverAborts(n, out) == FALSE
\* the exception of page 1 reaches the handler of extract_document: raised
\* by process_page itself or by line 899
PageAborts(n, out) == out.raised \/ (PageFailed(out) /\ n = 1)

\* one iteration of the page loop (lines 879-914) around the enhanced
\* process_page
ProcessPage ==
    /\ pc = "pages"
    /\ \E answer \in PageAnswers, mentions_json \in BOOLEAN :
          /\ answer = OracleError \/ ~mentions_json
          /\ \E original \in {original_process_page(page_num, answer,
                                  mentions_json, current_strategy, layout,
                                  performance_history, page_results_history)} :
             \E tried \in {RecoveryRuns(page_num, original.result)} :
             \E answers \in (IF tried THEN RecoveryAnswers \X RecoveryAnswers
                             ELSE {NoRecoveryAnswers}) :
             \E out \in {enhanced_process_page(page_num, original, answers)} :
             \E failed \in {PageFailed(out)} :
             \E aborted \in {PageAborts(page_num, out)} :
                     /\ current_strategy' = original.strategy
                     /\ performance_history' = original.perf
                     /\ page_results_history' = original.history
                     /\ page_log' = Append(page_log,
                           [page |-> page_num, answer |-> answer,
                            raised |-> out.raised, returned |-> out.result,
                            stages |-> original.stages,
                            adapting |-> original.adapting,
                            quality |-> original.quality,
                            decision |-> original.decision,
                            perf |-> original.perf,
                            before |-> current_strategy,
                            after |-> original.strategy,
                            prompted |-> PageContext(context_description,
                                                     original),
                            recovery_tried |-> tried])
                     /\ IF aborted
                        THEN /\ job_status' = "failed"
                             /\ job_error' = TRUE
                             /\ result' = ErrorResult
                             /\ pc' = "done"
                             /\ UNCHANGED <<combined_products, page_num>>
                        ELSE /\ combined_products' =
                                  IF failed THEN combined_products
                                  ELSE combined_products \o out.result.products
                             /\ page_num' = page_num + 1
                             /\ pc' = IF page_num = total_pages
                                      THEN "finish" ELSE "pages"
                             /\ UNCHANGED <<job_status, job_error, result>>
    /\ UNCHANGED <<total_pages, layout, context_description>>
    /\ UNCHANGED parseVars /\ UNCHANGED consVars /\ UNCHANGED unitVars

\* after the last page: lines 916-1094
Finish ==
    /\ pc = "finish"
    /\ \E mapping \in ColorMappingOutcomes, barcode \in BarcodeOutcomes :
       \E fin \in {FinishDocument(combined_products, mapping, barcode)} :
             /\ job_status' = fin.status
             /\ job_error' = (fin.status = "failed")
             /\ result' = IF fin.status = "failed" THEN ErrorResult
                          ELSE [kind |-> "products", products |-> fin.products,
                                consolidated |-> fin.consolidated,
                                metadata |-> Metadata(total_pages,
                                                      current_strategy,
                                                      page_results_history)]
    /\ pc' = "done"
    /\ UNCHANGED <<total_pages, page_num, layout, current_strategy,
                   page_results_history, performance_history,
                   combined_products, page_log, context_description>>
    /\ UNCHANGED parseVars /\ UNCHANGED consVars /\ UNCHANGED unitVars

Next == AnalyzeContext \/ StartImage \/ ProcessPage \/ Finish

Spec == Init /\ [][Next]_vars

(***************************************************************************)
(* One response through the JSON parsers                                   *)
(***************************************************************************)
ParseProductLists ==
    { <<>>, <<PScenA>>, <<PCf1, PCf2>>, <<PZero>>, <<PUnit>>, <<PUnsorted>>,
      <<PNameOnly>>, <<NotADict, PCf1>>, <<PJunkQty>>, <<PZero, PCf1>> }

\* a response cut short by the token limit has no closing fence
ParseResponses ==
    { JsonResponse(f, l, k, d, ps) :
         f \in BOOLEAN, l \in {"none", "junk", "object"},
         k \in {"products", "null", "none"},
         d \in {"none", "repairable", "fragile"}, ps \in ParseProductLists }
    \cup { JsonResponse(FALSE, l, k, d, ps) :
              l \in {"none", "junk", "object"}, k \in {"products", "null", "none"},
              d \in {"cut_tail", "cut_mid"}, ps \in ParseProductLists }
    \cup { ProseResponse(Repeated("AB1234", n)) : n \in 0..MaxMatches }
    \cup { ProseResponse(<<"AB1234", "CF100", "ZZ9">>) }

InitParse ==
    /\ DocIdle /\ ConsIdle /\ UnitIdle
    /\ response \in ParseResponses
    /\ robust_out = NotRun
    /\ agent_out = NotRun

\* robust_json_parse on the response; not ok stands for the ValueError or
\* TypeError it raises
RunRobustParse ==
    /\ ~robust_out.ran
    /\ \E parsed \in {robust_json_parse(response)} :
          robust_out' = [ran |-> TRUE, ok |-> parsed.ok,
                         products |-> parsed.products, tag |-> parsed.tag,
                         stages |-> parsed.stages]
    /\ UNCHANGED <<response, agent_out>>
    /\ UNCHANGED docVars /\ UNCHANGED consVars /\ UNCHANGED unitVars

\* ExtractionAgent.process_page on the response (lines 25-90)
RunAgent ==
    /\ ~agent_out.ran
    /\ \E page \in {agent_process_page(response, FALSE)} :
          agent_out' = [ran |-> TRUE, ok |-> ~page.result.error,
                        products |-> page.result.products,
                        tag |-> page.result.tag, stages |-> page.stages]
    /\ UNCHANGED <<response, robust_out>>
    /\ UNCHANGED docVars /\ UNCHANGED consVars /\ UNCHANGED unitVars

NextParse == RunRobustParse \/ RunAgent

SpecParse == InitParse /\ [][NextParse]_vars

(***************************************************************************)
(* One product list through _post_process_products                         *)
(***************************************************************************)
\* _sanitize_result and the cleaning of the original parser let only dicts
\* through to the consolidator
ConsolidatorPool == ProductPool \ {NotADict}

ConsolidatorInputs ==
    UNION { [1..n -> ConsolidatorPool] : n \in 1..MaxProducts }

InitConsolidate ==
    /\ DocIdle /\ ParseIdle /\ UnitIdle
    /\ cons_in \in ConsolidatorInputs
    /\ cons_out = NoList

Consolidate ==
    /\ ~cons_out.ran
    /\ \E barcode \in BarcodeOutcomes :
          LET post == post_process_products(cons_in, barcode)
          IN cons_out' = [ran |-> TRUE, raised |-> post.raised,
                          products |-> post.products, barcode |-> barcode]
    /\ UNCHANGED cons_in
    /\ UNCHANGED docVars /\ UNCHANGED parseVars /\ UNCHANGED unitVars

NextConsolidate == Consolidate

SpecConsolidate == InitConsolidate /\ [][NextConsolidate]_vars

(***************************************************************************)
(* One document's analyzer outputs through analyze_document_structure,     *)
(* called MaxAnalyses times on the same signals                            *)
(***************************************************************************)
MaxAnalyses == 2

InitLayout ==
    /\ DocIdle /\ ParseIdle /\ ConsIdle
    /\ signals \in TechnicalSamples \X VisualSamples \X ContentSamples
    /\ analyses = <<>>
    /\ validation = NoValidation
    /\ recorded = <<>>
    /\ cancel_requested = 0
    /\ jobs = <<>>

AnalyzeDocumentStructure ==
    /\ Len(analyses) < MaxAnalyses
    /\ analyses' = Append(analyses,
                          analyze_document_structure(signals[1], signals[2],
                                                     signals[3], Len(analyses)))
    /\ UNCHANGED <<signals, validation, recorded>> /\ UNCHANGED jobVars
    /\ UNCHANGED docVars /\ UNCHANGED parseVars /\ UNCHANGED consVars

NextLayout == AnalyzeDocumentStructure

SpecLayout == InitLayout /\ [][NextLayout]_vars

(***************************************************************************)
(* One document through extract_with_validation                            *)
(***************************************************************************)
MaxRetries == 2

InitValidation ==
    /\ DocIdle /\ ParseIdle /\ ConsIdle
    /\ signals = <<NoSignals, NoSignals, NoSignals>>
    /\ analyses = <<>>
    /\ recorded = <<>>
    /\ cancel_requested = 0
    /\ jobs = <<>>
    /\ \E m \in 0..MaxRetries :
          validation = [pc |-> "start", max_retries |-> m, retry_count |-> 0,
                        validation_result |-> Raises, validated |-> <<>>,
                        retries |-> <<>>, returned |-> "none"]

\* the except handler of lines 415-424 and the early returns of lines
\* 288-294 and 308-314: the extraction result with validation disabled
ReturnUnvalidated(v) ==
    [v EXCEPT !.pc = "returned", !.returned = "extraction_result"]

\* lines 276-357: the extraction, the early returns and the first validation
ValidateInitial ==
    /\ validation.pc = "start"
    /\ \E enable_validation \in BOOLEAN, images \in BOOLEAN,
          outcome \in ValidationOutcomes("initial") :
          validation' =
             IF ~enable_validation \/ ~images \/ outcome.raised
             THEN ReturnUnvalidated(validation)
             ELSE [validation EXCEPT !.pc = "retry",
                                     !.validation_result = outcome,
                                     !.validated = <<outcome>>]
    /\ UNCHANGED <<signals, analyses, recorded>> /\ UNCHANGED jobVars
    /\ UNCHANGED docVars /\ UNCHANGED parseVars /\ UNCHANGED consVars

\* one iteration of the loop of lines 360-377
RetryIteration ==
    /\ validation.pc = "retry"
    /\ RetryAllowed(validation.validation_result.confidence_score,
                    validation.retry_count, validation.max_retries)
    /\ \E alternative \in RetryExtractions,
          outcome \in ValidationOutcomes("retry") :
          /\ alternative = "none" => outcome = Raises
          /\ validation' =
                IF alternative # "none" /\ outcome.raised
                THEN ReturnUnvalidated(
                        [validation EXCEPT !.retry_count = @ + 1])
                ELSE [validation EXCEPT
                        !.retry_count = @ + 1,
                        !.validation_result =
                            RetriedResult(@, alternative, outcome),
                        !.validated =
                            IF alternative # "none" THEN Append(@, outcome) ELSE @,
                        !.retries =
                            Append(@, [confidence_score |->
                                          validation.validation_result.confidence_score,
                                       retry_count |-> validation.retry_count,
                                       alternative |-> alternative])]
    /\ UNCHANGED <<signals, analyses, recorded>> /\ UNCHANGED jobVars
    /\ UNCHANGED docVars /\ UNCHANGED parseVars /\ UNCHANGED consVars

\* lines 379-413: the result carries validation_result.products
ReturnValidated ==
    /\ validation.pc = "retry"
    /\ ~RetryAllowed(validation.validation_result.confidence_score,
                     validation.retry_count, validation.max_retries)
    /\ validation' = [validation EXCEPT !.pc = "returned",
                                        !.returned = "validation_result"]
    /\ UNCHANGED <<signals, analyses, recorded>> /\ UNCHANGED jobVars
    /\ UNCHANGED docVars /\ UNCHANGED parseVars /\ UNCHANGED consVars

NextValidation == ValidateInitial \/ RetryIteration \/ ReturnValidated

SpecValidation == InitValidation /\ [][NextValidation]_vars

\* the coroutine keeps running until it returns
SpecValidationFair == SpecValidation /\ WF_vars(NextValidation)

(***************************************************************************)
(* The strategy agent over the pages of one long document: analyze_context *)
(* selects the first strategy, then process_page adapts before each later  *)
(* page.  `recorded` logs every call of adapt_strategy_for_page.           *)
(***************************************************************************)
MaxAdaptations == 12

\* a page with one complete product, and a failed page
AgentPageResults ==
    { PageResult(<<PCf1>>, FALSE, FALSE, "none"),
      PageResult(<<>>, TRUE, FALSE, "none") }

\* analyze_context, lines 78-105
InitAgent ==
    /\ ParseIdle /\ ConsIdle /\ UnitIdle
    /\ pc = "start"
    /\ total_pages = 0
    /\ page_num = 0
    /\ layout \in LayoutSamples
    /\ current_strategy = select_strategy(layout, EmptyHistory)
    /\ page_results_history = <<>>
    /\ performance_history = EmptyHistory
    /\ combined_products = <<>>
    /\ job_status = "none"
    /\ job_error = FALSE
    /\ result = NoResult
    /\ page_log = <<>>
    /\ context_description = current_strategy

\* the scorer ran in this call (lines 427-429)
ScorerRan(key, decision) ==
    Strategies[key].fallback_strategy = "none" /\ decision # "none"

\* process_page, lines 745-759, for the page that follows `last_result`
AdaptNextPage ==
    /\ Len(recorded) < MaxAdaptations
    /\ \E last_result \in AgentPageResults :
       \E step \in {AdaptationStep(2, current_strategy, layout,
                                   performance_history, <<last_result>>)} :
          /\ current_strategy' = step.strategy
          /\ performance_history' = step.perf
          /\ recorded' =
                Append(recorded,
                       [key |-> current_strategy,
                        name |-> Strategies[current_strategy].name,
                        quality |-> step.quality,
                        decision |-> step.decision,
                        perf |-> step.perf,
                        scores |->
                           IF ScorerRan(current_strategy, step.decision)
                           THEN [k \in SeqToSet(StrategyKeys) |->
                                    AdjustedScore(k, layout, step.perf)]
                           ELSE [k \in {} |-> 0]])
    /\ UNCHANGED <<pc, total_pages, page_num, layout, page_results_history,
                   combined_products, job_status, job_error, result, page_log,
                   context_description>>
    /\ UNCHANGED <<signals, analyses, validation>> /\ UNCHANGED jobVars
    /\ UNCHANGED parseVars /\ UNCHANGED consVars

NextAgent == AdaptNextPage

SpecAgent == InitAgent /\ [][NextAgent]_vars

(***************************************************************************)
(* The document pipeline with a job scheduler that may request the         *)
(* cancellation of the job between two pages.  extract_document has no     *)
(* parameter, attribute or job-store entry it reads for it.                *)
(***************************************************************************)
\* the scheduler requests cancellation after page_num - 1 pages
RequestCancel ==
    /\ pc = "pages"
    /\ page_num > 1
    /\ cancel_requested = 0
    /\ cancel_requested' = page_num - 1
    /\ UNCHANGED <<signals, analyses, validation, recorded, jobs>>
    /\ UNCHANGED docVars /\ UNCHANGED parseVars /\ UNCHANGED consVars

NextCancel == Next \/ RequestCancel

SpecCancel == Init /\ [][NextCancel]_vars

(***************************************************************************)
(* Several documents processed concurrently.  main.py builds the extractor *)
(* of a request with get_gemini_extractor and hands it to the document     *)
(* service; the coroutines of the documents interleave at their awaits.    *)
(* jobs.extractor[e] holds the attributes of extractor e, jobs.doc[j] the  *)
(* locals of extract_document for document j, with `own`, the page results *)
(* of that document in order, and `overlaps`, the documents that were      *)
(* being processed when it started.                                        *)
(***************************************************************************)
MaxJobs == 2
MaxJobPages == 2

\* the layouts of the documents processed concurrently
JobLayouts == { GridAnalysis, FreeTextAnalysis }

\* one extractor kept for all requests
SharedExtractorOf(job) == 1

\* main.py, lines 278-280 and 355-359: every request gets a new
\* GeminiExtractor
ExtractorOf(job) == job

\* GeminiExtractor.__init__ (lines 53-76), GenericStrategyAgent.__init__
NewExtractor ==
    [layout |-> EmptyAnalysis, current_strategy |-> "none",
     page_results_history |-> <<>>, performance_history |-> EmptyHistory]

NewDocument ==
    [pc |-> "new", layout |-> EmptyAnalysis, total_pages |-> 0, page_num |-> 0,
     own |-> <<>>, samples |-> <<>>]

InitJobs ==
    /\ DocIdle /\ ParseIdle /\ ConsIdle
    /\ signals = <<NoSignals, NoSignals, NoSignals>>
    /\ analyses = <<>>
    /\ validation = NoValidation
    /\ recorded = <<>>
    /\ cancel_requested = 0
    /\ jobs = [extractor |-> [e \in 1..MaxJobs |-> NewExtractor],
               doc |-> [j \in 1..MaxJobs |-> NewDocument]]

\* extract_document up to the page loop: analyze_context (lines 78-105)
StartJob(j) ==
    /\ jobs.doc[j].pc = "new"
    /\ \E la \in JobLayouts, n \in 1..MaxJobPages :
       \E e \in {ExtractorOf(j)} :
          jobs' = [jobs EXCEPT
                     !.extractor[e].layout = la,
                     !.extractor[e].current_strategy =
                         select_strategy(la, jobs.extractor[e].performance_history),
                     !.doc[j] = [pc |-> "pages", layout |-> la,
                                 total_pages |-> n, page_num |-> 1,
                                 own |-> <<>>, samples |-> <<>>]]
    /\ UNCHANGED <<signals, analyses, validation, recorded, cancel_requested>>
    /\ UNCHANGED docVars /\ UNCHANGED parseVars /\ UNCHANGED consVars

\* one page of document j: process_page, lines 745-768
JobPage(j) ==
    /\ jobs.doc[j].pc = "pages"
    /\ \E page_result \in AgentPageResults :
       \E e \in {ExtractorOf(j)} :
       \E out \in {PageOutcome(
                      AdaptationStep(jobs.doc[j].page_num,
                                     jobs.extractor[e].current_strategy,
                                     jobs.extractor[e].layout,
                                     jobs.extractor[e].performance_history,
                                     jobs.extractor[e].page_results_history),
                      [result |-> page_result, stages |-> <<>>],
                      jobs.extractor[e].page_results_history)} :
          /\ jobs' = [jobs EXCEPT
                        !.extractor[e].current_strategy = out.strategy,
                        !.extractor[e].performance_history = out.perf,
                        !.extractor[e].page_results_history = out.history,
                        !.doc[j].page_num = @ + 1,
                        !.doc[j].own = Append(@, page_result),
                        !.doc[j].samples =
                            IF out.adapting
                            THEN Append(@, [name |-> Strategies[jobs.extractor[e].current_strategy].name,
                                            quality |-> out.quality,
                                            decision |-> out.decision])
                            ELSE @,
                        !.doc[j].pc = IF jobs.doc[j].page_num = jobs.doc[j].total_pages
                                      THEN "done" ELSE "pages"]
    /\ UNCHANGED <<signals, analyses, validation, recorded, cancel_requested>>
    /\ UNCHANGED docVars /\ UNCHANGED parseVars /\ UNCHANGED consVars

NextJobs == \E j \in 1..MaxJobs : StartJob(j) \/ JobPage(j)

SpecJobs == InitJobs /\ [][NextJobs]_vars

(***************************************************************************)
(* Properties                                                              *)
(***************************************************************************)
LoggedFailure(e) == e.raised \/ (e.returned.error /\ e.returned.products = <<>>)

NoSharedMaterialCode(ps) ==
    \A i, j \in 1..Len(ps) : i # j => ps[i].material_code # ps[j].material_code

\* C1: the product list the document result finally carries has no two
\* products with the same material_code.
C1_UniqueMaterialCodes ==
    result.kind = "products" => NoSharedMaterialCode(result.products)

\* C2: when the adapter evaluates a page, the strategy changes if and only
\* if the quality is strictly below 0.3; at exactly 0.3 or above it is kept.
C2_SwitchIffLowQuality ==
    \A k \in 1..Len(page_log) :
        page_log[k].adapting =>
            /\ (page_log[k].after # page_log[k].before) <=> (page_log[k].quality < 300)
            /\ page_log[k].quality >= 300 => page_log[k].decision = "none"

\* a document where one evaluation found exactly 0.3 and kept the strategy
\* and another found less and changed it
C2_Witness ==
    /\ \E k \in 1..Len(page_log) :
          /\ page_log[k].adapting /\ page_log[k].quality = 300
          /\ page_log[k].after = page_log[k].before
    /\ \E k \in 1..Len(page_log) :
          /\ page_log[k].adapting /\ page_log[k].quality < 300
          /\ page_log[k].after # page_log[k].before

\* C3: when page 1 fails without products after the recovery attempts, the
\* job is `failed` with an error message and no product list is returned.
C3_FirstPageFailureIsFatal ==
    (Len(page_log) >= 1 /\ LoggedFailure(page_log[1])) =>
        /\ pc = "done"
        /\ job_status = "failed" /\ job_error
        /\ result.kind = "error" /\ result.products = <<>>

\* page 1 failed on a JSON error, both recovery strategies ran and failed
C3_Witness ==
    /\ Len(page_log) = 1 /\ LoggedFailure(page_log[1])
    /\ page_log[1].recovery_tried
    /\ job_status = "failed"

\* C4: when a page k>1 fails, it contributes an empty error-tagged result,
\* the pages k+1..N are still processed and the document finishes
\* `completed` with the products of the pages that succeeded.
C4_LaterPageFailureNotFatal ==
    (/\ pc = "done"
     /\ Len(page_log) >= 2 /\ ~LoggedFailure(page_log[1])
     /\ \E k \in 2..Len(page_log) : LoggedFailure(page_log[k])) =>
        /\ Len(page_log) = total_pages
        /\ \A k \in 2..Len(page_log) :
              LoggedFailure(page_log[k]) =>
                 /\ ~page_log[k].raised
                 /\ page_log[k].returned.error /\ page_log[k].returned.skipped
        /\ job_status = "completed" /\ result.kind = "products"

HasPositiveSize(c) ==
    \E j \in 1..Len(c.sizes) : c.sizes[j].qkind = "num" /\ c.sizes[j].quantity > 0

EveryColorHasPositiveSize(ps) ==
    \A i \in 1..Len(ps) : \A k \in 1..Len(ps[i].colors) : HasPositiveSize(ps[i].colors[k])

\* C5: in every page result produced by JSON recovery each color that is
\* kept has at least one size entry whose quantity is greater than 0.
C5_KeptColorsHavePositiveSize ==
    /\ (robust_out.ran /\ robust_out.ok) => EveryColorHasPositiveSize(robust_out.products)
    /\ (agent_out.ran /\ agent_out.ok) => EveryColorHasPositiveSize(agent_out.products)

\* the stages the JSON parsers ran on `response`, without the product scan
\* of _attempt_json_recovery that follows a failed parse
ParserStages == SelectSeq(agent_out.stages, LAMBDA st : st # "product_scan")

ActualChain ==
    <<"fenced", "brace", "partial", "emergency",
      "orig_fenced", "orig_brace", "orig_whole">>

ActualRank(st) == CHOOSE n \in 1..Len(ActualChain) : ActualChain[n] = st

\* the stage alone, on response r, yields a result
StageHits(st, r) ==
    CASE st = "fenced" -> FencedStage(FencedBlocks(r)).res = "hit"
      [] st = "brace" -> BraceStage(r).res = "hit"
      [] st = "partial" -> PartialArrayParses(r)
      [] st = "emergency" -> MaterialCodeMatches(r) # <<>>
      [] OTHER -> /\ extract_and_clean_json(r).ok
                  /\ extract_and_clean_json(r).stage = st

\* C6 (as amended): the stages run in the fixed order fenced block, brace
\* object, partial products array, emergency scan and only then the original
\* parser's fenced block, brace object and whole response; a stage runs only
\* if every stage before it failed and the result is the first success.
C6_ActualStageOrder ==
    agent_out.ran =>
        /\ \A i, j \in 1..Len(ParserStages) :
              i < j => ActualRank(ParserStages[i]) < ActualRank(ParserStages[j])
        /\ \A i \in 1..(Len(ParserStages) - 1) : ~StageHits(ParserStages[i], response)
        /\ agent_out.ok =>
              /\ ParserStages # <<>>
              /\ StageHits(ParserStages[Len(ParserStages)], response)
        /\ ~agent_out.ok =>
              \A i \in 1..Len(ParserStages) : ~StageHits(ParserStages[i], response)

\* a response on which the whole-response parse ran, after the emergency scan
C6_Witness ==
    /\ agent_out.ran
    /\ \E i, j \in 1..Len(ParserStages) :
          /\ i < j
          /\ ParserStages[i] = "emergency" /\ ParserStages[j] = "orig_whole"

\* the order of the claim: fenced, brace, whole response, partial, emergency
ClaimedRank(st) ==
    CASE st \in {"fenced", "orig_fenced"} -> 1
      [] st \in {"brace", "orig_brace"} -> 2
      [] st = "orig_whole" -> 3
      [] st = "partial" -> 4
      [] st = "emergency" -> 5

\* C6 (as claimed): the stages are tried in the order fenced block, brace
\* object, whole response, partial products array, emergency scan: no stage
\* is first tried after a stage that comes later in that order.
C6_ClaimedStageOrder ==
    agent_out.ran =>
        \A i, j \in 1..Len(ParserStages) :
            (/\ i < j
             /\ \A m \in 1..(j - 1) :
                   ClaimedRank(ParserStages[m]) # ClaimedRank(ParserStages[j]))
            => ClaimedRank(ParserStages[i]) < ClaimedRank(ParserStages[j])

\* C7: emergency recovery never synthesizes more than 10 products for a
\* page, however many material_code occurrences the text contains.
C7_EmergencyCap ==
    /\ (robust_out.ran /\ robust_out.tag = "emergency") => Len(robust_out.products) <= 10
    /\ (agent_out.ran /\ agent_out.tag = "emergency") => Len(agent_out.products) <= 10

\* a text with more than 10 occurrences, parsed into exactly 10 placeholders
C7_Witness ==
    /\ response.shape = "prose" /\ Len(response.codes) > 10
    /\ agent_out.ran /\ agent_out.tag = "emergency"
    /\ Len(agent_out.products) = 10

IsPlaceholderFor(p, code) ==
    /\ p.material_code = code
    /\ p.name = "Produto " \o code
    /\ Len(p.colors) = 1
    /\ p.colors[1].color_code = "001"
    /\ p.colors[1].sizes = <<Sz("UN", 1)>>
    /\ p.colors[1].unit_price = 0 /\ p.colors[1].subtotal = 0

ScenarioC == ProseResponse(<<"AB1234", "AB1234", "AB1234">>)

\* C8: a response without fenced block and without parsable JSON object but
\* with three occurrences of "material_code": "AB1234" gives a page result
\* of exactly 3 placeholder products tagged as emergency recovery.
C8_ScenarioC ==
    (response = ScenarioC /\ agent_out.ran) =>
        /\ agent_out.ok
        /\ agent_out.tag = "emergency"
        /\ Len(agent_out.products) = 3
        /\ \A k \in 1..Len(agent_out.products) :
              IsPlaceholderFor(agent_out.products[k], "AB1234")

C8_Witness ==
    /\ response = ScenarioC /\ agent_out.ran
    /\ Len(agent_out.products) = 3 /\ agent_out.tag = "emergency"

\* C9: a one-page document whose response is a single fenced JSON block
\* with one product holding one color with sizes S:1 and M:0 gives an output
\* that keeps that color with only the entry S:1.
C9_ScenarioA ==
    (/\ pc = "done" /\ total_pages = 1
     /\ page_log[1].answer = Fenced(<<PScenA>>)) =>
        /\ result.kind = "products"
        /\ Len(result.products) = 1
        /\ Len(result.products[1].colors) = 1
        /\ result.products[1].colors[1].sizes = <<Sz("S", 1)>>

\* the input products carrying material_code `code`, in encounter order
SameCode(code) ==
    SelectSeq([i \in 1..Len(cons_in) |-> i],
              LAMBDA i : cons_in[i].material_code = code)

ColorCodes(colors) == {colors[k].color_code : k \in 1..Len(colors)}

\* product q of the consolidated list is the first input product with its
\* material_code, with colors of the later ones appended
MergedFirstSeen(q) ==
    LET same == SameCode(q.material_code)
        first == cons_in[same[1]]
        later == {same[n] : n \in 2..Len(same)}
        kept == IF first.has_colors THEN Len(first.colors) ELSE 0
    IN /\ same # <<>>
       /\ Len(q.colors) >= kept
       /\ \A m \in 1..kept : q.colors[m] = first.colors[m]
       /\ \A m \in (kept + 1)..Len(q.colors) :
             /\ \E i \in later : \E k \in 1..Len(cons_in[i].colors) :
                   cons_in[i].colors[k] = q.colors[m]
             /\ q.colors[m].color_code \notin ColorCodes(SubSeq(q.colors, 1, m - 1))
       /\ \A i \in later : \A k \in 1..Len(cons_in[i].colors) :
             Truthy(cons_in[i].colors[k].color_code) =>
                cons_in[i].colors[k].color_code \in ColorCodes(q.colors)

\* C10: among input products sharing a material_code the first encountered
\* is canonical; each later one adds only its colors whose color_code is not
\* yet present, and a color whose code is present leaves the canonical color
\* unchanged; the consolidated list has one product per material_code.
C10_MergeFirstSeen ==
    (cons_out.ran /\ ~cons_out.raised) =>
        /\ NoSharedMaterialCode(cons_out.products)
        /\ \A n \in 1..Len(cons_out.products) : MergedFirstSeen(cons_out.products[n])

\* two products CF100 with colors 001 and 002 give one CF100 with both
C10_Witness ==
    /\ cons_in = <<PCf1, PCf2>>
    /\ cons_out.ran /\ ~cons_out.raised
    /\ Len(cons_out.products) = 1
    /\ cons_out.products[1].material_code = "CF100"
    /\ Len(cons_out.products[1].colors) = 2
    /\ cons_out.products[1].colors[1].color_code = "001"
    /\ cons_out.products[1].colors[2].color_code = "002"


\* the (color, size) pairs with quantity > 0 of a color list, in encounter
\* order
RECURSIVE PositivePairs(_)
PositivePairs(colors) ==
    IF colors = <<>> THEN <<>>
    ELSE LET c == Head(colors)
         IN SelectSeq([j \in 1..Len(c.sizes) |->
                          [color_code |-> c.color_code, size |-> c.sizes[j].size,
                           quantity |-> c.sizes[j].quantity]],
                      LAMBDA e : e.quantity > 0)
            \o PositivePairs(Tail(colors))

ReferencesCoverColors(q) ==
    LET pairs == PositivePairs(q.colors)
    IN /\ q.has_refs
       /\ Len(q.references) = Len(pairs)
       /\ \A n \in 1..Len(pairs) :
             /\ q.references[n].counter = n
             /\ q.references[n].color_code = pairs[n].color_code
             /\ q.references[n].size = pairs[n].size
             /\ q.references[n].quantity = pairs[n].quantity

\* C11: the references of every consolidated product are exactly one entry
\* per (color, size) pair with quantity > 0 of the colors the product ends
\* up with after merging, numbered 1, 2, 3, ... in encounter order.
C11_ReferencesCoverMergedColors ==
    (cons_out.ran /\ ~cons_out.raised) =>
        \A n \in 1..Len(cons_out.products) :
            ReferencesCoverColors(cons_out.products[n])


\* the logged adaptations that found a low-quality page
LowQualityAdaptations ==
    {i \in 1..Len(page_log) :
        page_log[i].adapting /\ page_log[i].quality < QualityThreshold}

\* C12: when adaptation triggers the next strategy is the target of the
\* current strategy's fallback edge (structured_table, sequential_list and
\* form_field_extraction lead to adaptive_hybrid, adaptive_hybrid leads to
\* conservative_scan); only conservative_scan, which has no edge, gets a
\* fresh pick of the scorer.
C12_FallbackEdgeOrScorer ==
    \A i \in LowQualityAdaptations :
        LET e == page_log[i]
        IN /\ e.before \in {"structured_table", "sequential_list",
                            "form_field_extraction"} => e.after = "adaptive_hybrid"
           /\ e.before = "adaptive_hybrid" => e.after = "conservative_scan"
           /\ e.before = "conservative_scan" => e.after = select_strategy(layout, e.perf)
           /\ e.before \in SeqToSet(StrategyKeys)

\* a document that followed the edge adaptive_hybrid -> conservative_scan
\* and then had the scorer pick again after a poor conservative_scan page
C12_Witness ==
    /\ \E i \in LowQualityAdaptations :
          page_log[i].before = "adaptive_hybrid"
          /\ page_log[i].after = "conservative_scan"
    /\ \E i \in LowQualityAdaptations :
          page_log[i].before = "conservative_scan"
          /\ page_log[i].after = select_strategy(layout, page_log[i].perf)

\* C13: whenever adaptation triggers, the strategy of the next page differs
\* from the strategy that produced the low-quality page.
C13_AdaptationChangesStrategy ==
    /\ \A i \in LowQualityAdaptations : page_log[i].after # page_log[i].before
    \* the only strategy without a fallback edge is never the scorer's pick
    /\ \A la \in LayoutSamples :
          select_strategy(la, performance_history) # "conservative_scan"

\* the scorer, re-run after a poor conservative_scan page, moved away from it
C13_Witness ==
    \E i \in LowQualityAdaptations :
        /\ page_log[i].before = "conservative_scan"
        /\ page_log[i].after # "conservative_scan"
        /\ page_log[i].returned.strategy_used = page_log[i].after


\* the highest layout score of an analysis
BestScore(a) ==
    CHOOSE x \in {a.layout_scores[t] : t \in SeqToSet(LayoutTypes)} :
        \A t \in SeqToSet(LayoutTypes) : a.layout_scores[t] <= x

\* C14: every analysis has a confidence of at least 0.3; when the best
\* layout score is below 0.3 the analysis is hybrid-mixed with the adaptive
\* strategy at confidence exactly 0.3.
C14_ConfidenceFloor ==
    \A n \in 1..Len(analyses) :
        LET a == analyses[n]
        IN /\ a.confidence >= ConfidenceFloor
           /\ BestScore(a) < ConfidenceFloor =>
                 /\ a.layout_type = "HYBRID_MIXED"
                 /\ a.extraction_strategy = "adaptive_extraction"
                 /\ a.confidence = ConfidenceFloor

\* the scorer ran on signals whose best score is positive but below 0.3
C14_Witness ==
    \E n \in 1..Len(analyses) :
        /\ ~analyses[n].raised
        /\ BestScore(analyses[n]) > 0
        /\ BestScore(analyses[n]) < ConfidenceFloor
        /\ analyses[n].layout_type = "HYBRID_MIXED"
        /\ analyses[n].confidence = ConfidenceFloor

Decision(a) == <<a.layout_type, a.extraction_strategy, a.confidence>>

BlankTechnical == Technical("blank", 0, 0, 0, 0, <<>>)
BlankVisual == Visual("blank", "", 0, FALSE, FALSE)
BlankContent == Content("blank", FALSE, FALSE, 0, FALSE, 0)

Blanked(x, blank) == IF x.error THEN blank ELSE x

\* C16: no analysis is aborted; a failed analyzer adds zero to every layout
\* score while the signals of the others are scored as usual; when the
\* analysis fails as a whole the result is hybrid-mixed at confidence 0.3.
C16_AnalyzerFailureTolerated ==
    \A n \in 1..Len(analyses) :
        LET a == analyses[n]
        IN /\ ~a.aborted
           /\ ~a.raised =>
                 a.layout_scores =
                    LayoutScores(Blanked(signals[1], BlankTechnical),
                                 Blanked(signals[2], BlankVisual),
                                 Blanked(signals[3], BlankContent))
           /\ (a.raised \/ \A k \in 1..3 : signals[k].error) =>
                 /\ a.layout_type = "HYBRID_MIXED"
                 /\ a.extraction_strategy = "adaptive_extraction"
                 /\ a.confidence = ConfidenceFloor

\* the technical analyzer failed, the other two decided a grid layout
C16_Witness ==
    /\ analyses # <<>>
    /\ signals[1].error /\ ~signals[2].error /\ ~signals[3].error
    /\ ~analyses[1].raised
    /\ analyses[1].layout_type = "GRID_TABULAR"
    /\ analyses[1].layout_scores["LIST_VERTICAL"] > 0


RetrySafety ==
    validation.pc # "idle" =>
        /\ \A n \in 1..Len(validation.retries) :
              /\ validation.retries[n].confidence_score < RetryThreshold
              /\ validation.retries[n].retry_count < validation.max_retries
        /\ Len(validation.retries) <= validation.max_retries
        /\ validation.retry_count <= validation.max_retries
        /\ validation.max_retries = DefaultMaxRetries =>
              Len(validation.retries) <= 1

\* C18: a re-extraction is invoked only while the aggregate confidence is
\* below 0.5 and retries remain, with the default of one retry at most one
\* re-extraction is made, and extract_with_validation always returns.
C18_BoundedRetry ==
    /\ []RetrySafety
    /\ <>(validation.pc = "returned")

\* with the default of one retry, one re-extraction was made for a
\* low-confidence document and the loop has ended
C18_Witness ==
    /\ validation.pc = "returned"
    /\ validation.max_retries = DefaultMaxRetries
    /\ Len(validation.retries) = 1
    /\ validation.retries[1].confidence_score < RetryThreshold
    /\ validation.returned = "validation_result"
    /\ validation.validation_result.confidence_score < RetryThreshold


ScoringRuns == {i \in 1..Len(recorded) : DOMAIN recorded[i].scores # {}}

\* C19: once samples are recorded for a strategy, a later scoring run adds
\* 0.05 to that strategy's score when the average of its samples is above
\* 0.8 and subtracts 0.05 when it is below 0.3.
C19_HistoryAdjustsScore ==
    \A i \in ScoringRuns :
    \A k \in SeqToSet(StrategyKeys) :
        Strategies[k].name \in DOMAIN recorded[i].perf =>
            recorded[i].scores[k] =
                LayoutBasedScore(k, layout)
                + HistoryAdjust(recorded[i].perf[Strategies[k].name])

\* the samples recorded under a name, in recording order
SamplesOf(name) ==
    LET Under(r) == r.name = name
        Named == SelectSeq(recorded, Under)
    IN [n \in 1..Len(Named) |-> Named[n].quality]

LastSamples(samples) ==
    IF Len(samples) > HistoryLimit
    THEN SubSeq(samples, Len(samples) - HistoryLimit + 1, Len(samples))
    ELSE samples

\* C20: for each strategy name the performance history holds at most 10
\* samples, and they are the most recently recorded ones in recording order.
C20_LastTenSamples ==
    /\ DOMAIN performance_history = {recorded[i].name : i \in 1..Len(recorded)}
    /\ \A name \in DOMAIN performance_history :
          /\ Len(performance_history[name]) <= HistoryLimit
          /\ performance_history[name] = LastSamples(SamplesOf(name))

\* more than 10 samples were recorded under one name, not all of them
\* equal, and the oldest has been dropped
C20_Witness ==
    \E name \in DOMAIN performance_history :
        /\ Len(SamplesOf(name)) > HistoryLimit
        /\ Len(performance_history[name]) = HistoryLimit
        /\ performance_history[name] # SubSeq(SamplesOf(name), 1, HistoryLimit)
        /\ \E a, b \in 1..HistoryLimit :
              performance_history[name][a] # performance_history[name][b]


\* C26: consolidation never raises because of one malformed product (a null
\* brand, a non-string name, a non-numeric size quantity): with a barcode
\* step that does not raise, _post_process_products returns a list.
C26_NoRaiseOnMalformedProduct ==
    (cons_out.ran /\ cons_out.barcode # "raises") => ~cons_out.raised

\* C27: when the barcode assignment fails, for any reason, consolidation
\* still returns the list it returns when the assignment succeeds.
C27_BarcodeFailureNotFatal ==
    (cons_out.ran /\ cons_out.barcode # "ok") =>
        /\ cons_out.raised = post_process_products(cons_in, "ok").raised
        /\ cons_out.products = post_process_products(cons_in, "ok").products


StrategyChangesMade ==
    Cardinality({i \in 1..Len(page_log) : page_log[i].after # page_log[i].before})

\* C25: the adaptation count of the result metadata equals the number of
\* strategy changes made while the pages were processed (pages run under
\* A, B, A report 2).
C25_AdaptationCount ==
    (pc = "done" /\ result.kind = "products") =>
        result.metadata.strategy_adaptations = StrategyChangesMade


\* C29: after a strategy change, every later page is prompted with the
\* instructions of the strategy in force for that page (the latest
\* instructions its context carries are those of that strategy), not with
\* those of the strategy selected before page 1.
C29_PromptFollowsStrategy ==
    \A i \in 1..Len(page_log) :
        page_log[i].prompted[Len(page_log[i].prompted)] = page_log[i].after


\* C23: the pages of a document are processed one after another in page
\* order: when page N is processed the results of pages 1..N-1 exist and no
\* other, and the strategy of page N is decided from the quality measured on
\* the result of page N-1.
C23_PagesSequential ==
    /\ Len(page_results_history) = Len(page_log)
    /\ pc = "pages" => page_num = Len(page_log) + 1
    /\ \A i \in 1..Len(page_log) :
          /\ page_log[i].page = i
          /\ page_results_history[i].strategy_used = page_log[i].after
          /\ i = 1 => ~page_log[i].adapting /\ page_log[i].after = page_log[i].before
          /\ (i > 1 /\ total_pages > 1) =>
                /\ page_log[i].adapting
                /\ page_log[i].before = page_log[i-1].after
                /\ page_log[i].quality = PageQuality(page_results_history[i-1])
                /\ page_log[i].decision =
                      AdaptDecision(page_log[i].before, page_log[i].quality,
                                    layout, page_log[i].perf)
                /\ page_log[i].after =
                      IF page_log[i].decision # "none"
                      THEN page_log[i].decision ELSE page_log[i].before

\* page 1 was good and page 2 poor: page 2 kept the strategy and page 3
\* changed it
C23_Witness ==
    /\ Len(page_log) = 3
    /\ PageQuality(page_results_history[1]) >= QualityThreshold
    /\ PageQuality(page_results_history[2]) < QualityThreshold
    /\ page_log[2].after = page_log[1].after
    /\ page_log[3].after # page_log[2].after

\* C28: the page result whose quality is evaluated to adapt the strategy
\* for page N is the result that was returned for page N-1, also when that
\* result came from the page recovery.
C28_AdaptsFromReturnedResult ==
    \A i \in 2..Len(page_log) :
        /\ page_results_history[i-1].products = page_log[i-1].returned.products
        /\ page_log[i].quality = PageQuality(page_log[i-1].returned)


LowQuality(i) == recorded[i].quality < QualityThreshold

StrategyAfter(i) ==
    IF recorded[i].decision # "none" THEN recorded[i].decision ELSE recorded[i].key

\* C30: from any of the five registered strategies, a run of consecutive
\* pages with quality below 0.3 brings the current strategy to
\* conservative_scan after at most two strategy changes.
C30_ConservativeWithinTwoChanges ==
    /\ \A i \in 1..Len(recorded) :
          LowQuality(i) =>
             \/ recorded[i].key = "conservative_scan"
             \/ StrategyAfter(i) = "conservative_scan"
             \/ (i < Len(recorded) /\ LowQuality(i + 1)) =>
                   /\ StrategyAfter(i) # recorded[i].key
                   /\ StrategyAfter(i + 1) = "conservative_scan"
    \* the same, read off the decisions for each of the five strategies
    /\ \A k \in SeqToSet(StrategyKeys) :
          \/ k = "conservative_scan"
          \/ AdaptDecision(k, 0, layout, performance_history) = "conservative_scan"
          \/ AdaptDecision(AdaptDecision(k, 0, layout, performance_history), 0,
                           layout, performance_history) = "conservative_scan"

\* two poor pages in a row took a strategy two edges away to
\* conservative_scan
C30_Witness ==
    \E i \in 1..(Len(recorded) - 1) :
        /\ recorded[i].key \in {"structured_table", "sequential_list",
                                "form_field_extraction"}
        /\ LowQuality(i) /\ LowQuality(i + 1)
        /\ StrategyAfter(i) = "adaptive_hybrid"
        /\ StrategyAfter(i + 1) = "conservative_scan"


\* C24: when cancellation is requested after page k, no further page is
\* processed and the document ends with the results of pages 1..k.
C24_CancelStopsPages ==
    cancel_requested > 0 =>
        /\ Len(page_log) = cancel_requested
        /\ combined_products =
              FlattenSeq([i \in 1..cancel_requested |->
                            IF page_log[i].returned.error
                               /\ page_log[i].returned.products = <<>>
                            THEN <<>> ELSE page_log[i].returned.products])


StartedJobs == {j \in 1..MaxJobs : jobs.doc[j].pc # "new"}

JobHistory(j) == jobs.extractor[ExtractorOf(j)].performance_history

\* the qualities recorded for strategy `name` by document k
RECURSIVE SamplesRecordedBy(_, _)
SamplesRecordedBy(samples, name) ==
    IF samples = <<>> THEN <<>>
    ELSE IF samples[Len(samples)].name = name
         THEN Append(SamplesRecordedBy(SubSeq(samples, 1, Len(samples) - 1), name),
                     samples[Len(samples)].quality)
         ELSE SamplesRecordedBy(SubSeq(samples, 1, Len(samples) - 1), name)

\* C21: with several documents processed concurrently no recorded sample
\* is lost: the performance history a document's scoring reads holds, for
\* every strategy name, the samples recorded so far by any document (all of
\* them while they are no more than 10), and never more than 10.
C21_NoSampleLost ==
    \A j \in StartedJobs, k \in StartedJobs :
    \A i \in 1..Len(jobs.doc[k].samples) :
        LET Kept(name, history) ==
                /\ name \in DOMAIN history
                /\ Len(history[name]) <= HistoryLimit
                /\ Len(history[name]) >=
                      Len(SamplesRecordedBy(jobs.doc[k].samples, name))
        IN Kept(jobs.doc[k].samples[i].name, JobHistory(j))


\* what a new extractor holds after analysing layout `la` and processing
\* the page results `results`, one after another
RECURSIVE ReplayPages(_, _)
ReplayPages(la, results) ==
    IF results = <<>>
    THEN [NewExtractor EXCEPT
             !.layout = la,
             !.current_strategy = select_strategy(la, EmptyHistory)]
    ELSE LET Page(x) ==
                 LET Store(out) ==
                         [x EXCEPT !.current_strategy = out.strategy,
                                   !.performance_history = out.perf,
                                   !.page_results_history = out.history]
                 IN Store(PageOutcome(
                        AdaptationStep(Len(results), x.current_strategy, la,
                                       x.performance_history,
                                       x.page_results_history),
                        [result |-> results[Len(results)], stages |-> <<>>],
                        x.page_results_history))
         IN Page(ReplayPages(la, SubSeq(results, 1, Len(results) - 1)))

\* C22: the page history, the current strategy and the layout analysis used
\* while a document is processed reflect that document's own pages only,
\* whatever other documents were or are being processed.
C22_NoCrossDocumentState ==
    \A j \in StartedJobs :
        LET Same(x, own) ==
                /\ x.layout = own.layout
                /\ x.current_strategy = own.current_strategy
                /\ x.page_results_history = own.page_results_history
        IN Same(jobs.extractor[ExtractorOf(j)],
                ReplayPages(jobs.doc[j].layout, jobs.doc[j].own))

\* two documents with different layouts are being processed at the same
\* time; the first has a failed page behind it, the second a good one, each
\* extractor holds one page and their strategies differ
C22_Witness ==
    /\ jobs.doc[1].pc = "pages" /\ jobs.doc[2].pc = "pages"
    /\ jobs.doc[1].layout # jobs.doc[2].layout
    /\ Len(jobs.doc[1].own) = 1 /\ jobs.doc[1].own[1].error
    /\ Len(jobs.doc[2].own) = 1 /\ ~jobs.doc[2].own[1].error
    /\ Len(jobs.extractor[ExtractorOf(1)].page_results_history) = 1
    /\ Len(jobs.extractor[ExtractorOf(2)].page_results_history) = 1
    /\ jobs.extractor[ExtractorOf(1)].current_strategy
          # jobs.extractor[ExtractorOf(2)].current_strategy

=============================================================================
